---------------------------- MODULE Spec2Model ----------------------------
(***************************************************************************)
(* State-machine model of the proxy validation and sourcing engine:        *)
(* TaskProxyPool (store and monitor), CircuitBreaker, the ProxyManager     *)
(* cache, the endpoint rotation of ProxyChecker / IPDetector, the batch    *)
(* checker and CountryMapper.  Each component has its own specification    *)
(* (SpecXxx); the variables of the other components stay at their initial  *)
(* values there.                                                           *)
(***************************************************************************)
EXTENDS Integers, Sequences, FiniteSets, TLC

(***************************************************************************)
(* Bounds of the model                                                     *)
(***************************************************************************)
MaxRows == 3

MaxThreshold == 2

MaxWindow == 2

MaxTrials == 1

MaxResetTimeout == 1

MaxCbTime == 3

MaxCbFailures == 3

\* ProxyManager cache: the largest cache.max_failures, the cap of the failure
\* count, the number of clock ticks, and the number of proxy records built
MaxMaxFailures == 2

MaxPmFailures == 2

MaxPmTicks == 1

MaxRecords == 1

\* endpoint rotation: clock ticks, and the cap of an API's failure_count
MaxEpTicks == 1

MaxApiFailures == 5

\* batch check: proxies in the batch, largest checker.max_retries and
\* general.thread_count
MaxBatch == 2

MaxCheckRetries == 2

MaxWorkers == 2

MaxMonitorTasks == 2

\* task-pool store: rows in the table and the largest
\* proxy.checker.max_proxy_retries
MaxStoreRows == 2

MaxProxyRetries == 2

\* time.time() of the breaker used through both APIs
MaxApiTime == 2

\* failures reported to that breaker with no success in between
MaxRunFailures == 2

\* the count argument of ApiProxySource.get_proxies
MaxCount == 3

\* new records in one parsed API batch
MaxFresh == 2

\* rows of the imported-proxy store
MaxImported == 2

\* total_tasks given to monitor_pool_for_tasks
MaxTotalTasks == 6

\* 'available' rows in the task pool when the monitor starts
MaxAvailable == 7

\* unused records in the imported store when the monitor starts
MaxStock == 2

\* consecutive failed checks recorded in one cache entry
MaxRunOfFailures == 3

\* seconds on the clock read by _update_proxy_cache
MaxUpdateTime == 3

\* probes made one after the other on the same checker
MaxProbes == 2

\* proxies given to one batch_check_async call
MaxBatchProxies == 6

\* probes one FixedProxySource issues
MaxFixedProbes == 3


Callers == {1, 2}

Instances == {1, 2}

Min(a, b) == IF a <= b THEN a ELSE b

Max(a, b) == IF a >= b THEN a ELSE b

SetMin(S) == CHOOSE x \in S : \A y \in S : x <= y

VARIABLES
    \* ---- TaskProxyPool store (table task_proxies) and get_proxy callers
    task_proxies,   \* sequence of rows; the row id is the index (AUTOINCREMENT)
    pool_lock,      \* per TaskProxyPool instance: the caller holding self.lock
    gp_pc,          \* per caller: position inside TaskProxyPool.get_proxy
    gp_inst,        \* per caller: the TaskProxyPool instance it calls
    gp_row,         \* per caller: proxy_id read by the SELECT
    gp_ret,         \* per caller: -1 no return yet, 0 None, else the row id
    \* ---- CircuitBreaker
    cb,             \* _state, _consecutive_failures, _last_state_change,
                    \* _half_open_trial_count, _results_window
    cb_cfg,         \* the constructor's parameters
    cb_now,         \* time.time()
    ex_pc,          \* per caller of execute: "idle" or "running" (action in flight)
    ex_info,        \* per caller: how its current execute call was admitted
    cb_run,         \* failures since construction/reset with no success between
                    \* (-1 once a success has been reported)
    cb_last,        \* the operation completed last
    \* ---- ProxyManager cache (one source type)
    pm_cache,       \* self._proxy_cache[source_type]
    pm_cfg,         \* settings: source type, fixed proxy configured, max_failures
    pm_now,         \* time.time()
    pm_pc,          \* per task: position inside get_proxy
    pm_call,        \* per task: retry_count, returned record, and what the
                    \* current top-level call has done (probed,
                    \* live record and forced-recheck state at its start)
    pm_next_id,     \* identity of the next proxy record built by a probe
    pm_anchor,      \* record and expiry of the latest successful get_proxy
    \* ---- ProxyChecker URL tracking and IPDetector API states
    url_status,     \* self._url_status
    blocked_urls,   \* self._blocked_urls
    url_cooldown,   \* self._url_cooldown
    url_last_used,  \* self._url_last_used
    api_states,     \* IPDetector.api_states
    ep_now,         \* time.time()
    ep_last,        \* the last selection: what was returned and the state
                    \* the selector found
    \* ---- ProxyChecker.batch_check_async
    bc_cfg,         \* len(proxies), self.max_retries, self.max_workers
    bc_pc,          \* per proxy: position of its _check_with_semaphore task
    bc_attempts,    \* per proxy: HTTP requests sent for it
    bc_result,      \* per proxy: how its task ended
    bc_stats,       \* the returned statistics
    bc_done,        \* batch_check_async has returned
    \* ---- CountryMapper.match_country_code
    geo_detected,   \* argument detected_code
    geo_target,     \* argument target_code
    geo_called,     \* the call has returned
    geo_result,     \* its return value
    \* ---- TaskProxyPool monitor
    should_monitor, \* _should_monitor
    total_tasks,    \* _total_tasks
    proxy_source,   \* _proxy_source
    monitor_task,   \* _monitor_task: id of the task, 0 for None
    mon_tasks,      \* state of every task created by monitor_pool_for_tasks
    mon_stop,       \* position of the stop_monitoring call in progress
    mon_start,      \* what the last monitor_pool_for_tasks call found and did
    mon_after_stop, \* what happened since stop_monitoring last returned
    \* ---- task-pool store used through ProxyManager
    store_rows,     \* the rows of task_proxies
    st_cfg,         \* proxy.checker.max_proxy_retries
    tp_pc,          \* position of each get_proxy_from_task_pool call
    tp_id,          \* the id of the row the call holds (0 for none)
    tp_retry,       \* retry_count of the call
    tp_outcome,     \* how the call's last check_proxy ended
    st_last,        \* the last call made on the store and what it returned
    \* ---- CircuitBreaker used through both of its APIs
    api_cb,         \* the breaker's fields, as cb
    api_cfg,        \* the constructor's parameters
    api_now,        \* time.time()
    api_pc,         \* per caller: position inside execute / execute_async
    api_lock,       \* holder of self._lock (sync) and of self._async_lock (async)
    listeners,      \* len(self._listeners)
    async_listeners, \* len(self._async_listeners)
    api_event,      \* the last call of _transition_to_state(_async)
    api_admitted,   \* actions admitted since the last transition
    api_last,       \* the last admission check and what it decided
    \* ---- ProxyManager source types
    self_source_type, \* self.source_type
    proxy_cache,    \* self._proxy_cache, one entry per source type
    pool_rows,      \* the proxies stored in the task pool
    sd_last,        \* the last get_proxy / get_proxies_batch call
    \* ---- ApiProxySource.get_proxies
    as_pc,          \* "idle", "loop" (inside the while loop) or "done"
    as_count,       \* the count argument
    as_len,         \* len(proxies)
    as_attempts,    \* attempts
    as_calls,       \* calls of _call_api made by this get_proxies call
    as_ret,         \* len of the returned list
    \* ---- ImportedProxySource on the imported-proxy store
    imp_allow_reuse, \* proxy.pool.allow_reuse
    imp_status,     \* the status column of each row of the table proxies
    imp_pc,         \* per caller: position inside get_proxies
    imp_sel,        \* per caller: selected_proxies
    imp_todo,       \* per caller: selected records not yet marked 'used'
    imp_returns,    \* per record: the calls that have returned it (up to 2)
    \* ---- one replenishment cycle of the monitor
    rc_total,       \* _total_tasks
    rc_source,      \* _proxy_source
    rc_rows,        \* number of 'available' rows of task_proxies
    rc_stock,       \* number of imported records not marked 'used'
    rc_pc,          \* the monitor coroutine: the await it is suspended in
    rc_thread,      \* the executor thread working for the cycle
    rc_req,         \* what the cycle computed and asked for
    rc_taken,       \* records the source thread has taken in this cycle
    rc_list,        \* len of the list get_proxies returned to the coroutine
    rc_saved,       \* records of this cycle committed to task_proxies
    \* ---- _update_proxy_cache on one cache entry
    cu_present,     \* whether self._proxy_cache has the entry
    cu_cache,       \* the entry
    cu_max_failures,\* self._cache_max_failures
    cu_now,         \* time.time()
    cu_last,        \* the last call: its arguments, clock and the counter before
    \* ---- IPDetector.update_api_state observed
    det_run,        \* per API: failures in a row since its last success
    det_last,       \* the last update_api_state call as an observer sees it
    \* ---- one probe of _check_connection_async
    pr_cfg,         \* ignore_ip_check, max_retries, and whether proxy_url is given
    pr_pc,          \* idle, request (awaiting session.get), switch, done
    pr_url,         \* test_url
    pr_attempt,     \* attempt, the loop variable
    pr_result,      \* the result dictionary
    pr_limited,     \* the endpoint whose rate-limit answer caused the current attempt
    pr_probes,      \* probes started so far
    \* ---- the batches of one batch_check_async call
    bb_cfg,         \* len(proxies) and self.max_workers
    bb_start,       \* i + 1, the first proxy of the current batch
    bb_phase,       \* loop, gather (awaiting asyncio.gather), returned
    bb_pc,          \* per proxy: none, queued, running, finished
    \* ---- FixedProxySource
    fs_configured,  \* whether the settings hold a host and a port for the fixed proxy
    fs_cached_proxy,\* self._cached_proxy: None or the proxy checked
    fs_cached_check_result,\* self._cached_check_result: None, or the result of a successful or failed probe
    fs_probes,      \* number of check_proxy calls the source has made
    fs_call,        \* the last call of the source: its arguments, what it found and what it returned
    \* ---- CircuitBreaker: the record since the last recovery
    cb_since        \* whether the breaker has recovered and not opened since, and what was recorded since

rvVars == <<cb_since>>

fsVars == <<fs_configured, fs_cached_proxy, fs_cached_check_result, fs_probes, fs_call>>

bbVars == <<bb_cfg, bb_start, bb_phase, bb_pc>>

prVars == <<pr_cfg, pr_pc, pr_url, pr_attempt, pr_result, pr_limited, pr_probes>>

detVars == <<det_run, det_last>>

poolVars == <<task_proxies, pool_lock, gp_pc, gp_inst, gp_row, gp_ret>>

cbVars == <<cb, cb_cfg, cb_now, ex_pc, ex_info, cb_run, cb_last>>

pmVars == <<pm_cache, pm_cfg, pm_now, pm_pc, pm_call, pm_next_id, pm_anchor>>

epVars == <<url_status, blocked_urls, url_cooldown, url_last_used, api_states,
           ep_now, ep_last>>

bcVars == <<bc_cfg, bc_pc, bc_attempts, bc_result, bc_stats, bc_done>>

geoVars == <<geo_detected, geo_target, geo_called, geo_result>>

monVars == <<should_monitor, total_tasks, proxy_source, monitor_task, mon_tasks,
            mon_stop, mon_start, mon_after_stop>>

stVars == <<store_rows, st_cfg, tp_pc, tp_id, tp_retry, tp_outcome, st_last>>

apiVars == <<api_cb, api_cfg, api_now, api_pc, api_lock, listeners, async_listeners,
            api_event, api_admitted, api_last>>

sdVars == <<self_source_type, proxy_cache, pool_rows, sd_last>>

asVars == <<as_pc, as_count, as_len, as_attempts, as_calls, as_ret>>

impVars == <<imp_allow_reuse, imp_status, imp_pc, imp_sel, imp_todo, imp_returns>>

cuVars == <<cu_present, cu_cache, cu_max_failures, cu_now, cu_last>>

rcVars == <<rc_total, rc_source, rc_rows, rc_stock, rc_pc, rc_thread, rc_req,
           rc_taken, rc_list, rc_saved>>

(***************************************************************************)
(* TaskProxyPool: the store and get_proxy                                  *)
(***************************************************************************)
PoolStatuses == {"available", "in_use", "used", "failed"}

\* A row of task_proxies: the unique key columns and the status column.
PoolRow(h, st) == [host |-> h, port |-> 8080, username |-> "", password |-> "",
                   status |-> st]

AvailableIds(rows) == {i \in 1..Len(rows) : rows[i].status = "available"}

\* SELECT * FROM task_proxies WHERE status = 'available' ORDER BY id ASC LIMIT 1
\* (0 when fetchone() gives no row).
SelectOldestAvailable(rows) ==
    IF AvailableIds(rows) = {} THEN 0 ELSE SetMin(AvailableIds(rows))

\* UPDATE task_proxies SET status = ? WHERE id = ?   (no condition on status)
UpdateStatus(rows, id, st) ==
    IF id \in 1..Len(rows) THEN [rows EXCEPT ![id].status = st] ELSE rows

\* The store at the start: up to MaxRows rows with distinct hosts, any status.
PoolInit ==
    /\ \E n \in 1..MaxRows :
         \E sts \in [1..n -> PoolStatuses] :
            task_proxies = [i \in 1..n |-> PoolRow(i, sts[i])]
    /\ pool_lock = [i \in Instances |-> 0]
    /\ gp_pc = [c \in Callers |-> "idle"]
    /\ gp_inst \in [Callers -> Instances]
    /\ gp_row = [c \in Callers |-> 0]
    /\ gp_ret = [c \in Callers |-> -1]

\* The store as the other specifications leave it.
PoolIdle ==
    /\ task_proxies = <<>>
    /\ pool_lock = [i \in Instances |-> 0]
    /\ gp_pc = [c \in Callers |-> "idle"]
    /\ gp_inst = [c \in Callers |-> 1]
    /\ gp_row = [c \in Callers |-> 0]
    /\ gp_ret = [c \in Callers |-> -1]

\* get_proxy, `with self.lock:` -- the RLock belongs to the instance, so only
\* callers of the same TaskProxyPool object exclude each other.
GetProxyLock(c) ==
    /\ gp_pc[c] = "idle"
    /\ pool_lock[gp_inst[c]] = 0
    /\ pool_lock' = [pool_lock EXCEPT ![gp_inst[c]] = c]
    /\ gp_pc' = [gp_pc EXCEPT ![c] = "locked"]
    /\ UNCHANGED <<task_proxies, gp_inst, gp_row, gp_ret>>

\* get_proxy, the SELECT on the caller's own connection (autocommit: the
\* sqlite3 module opens a transaction only before the UPDATE).
GetProxySelect(c) ==
    /\ gp_pc[c] = "locked"
    /\ LET id == SelectOldestAvailable(task_proxies) IN
         IF id = 0
           THEN /\ gp_ret' = [gp_ret EXCEPT ![c] = 0]
                /\ gp_pc' = [gp_pc EXCEPT ![c] = "returned"]
                /\ pool_lock' = [pool_lock EXCEPT ![gp_inst[c]] = 0]
                /\ UNCHANGED gp_row
           ELSE /\ gp_row' = [gp_row EXCEPT ![c] = id]
                /\ gp_pc' = [gp_pc EXCEPT ![c] = "selected"]
                /\ UNCHANGED <<gp_ret, pool_lock>>
    /\ UNCHANGED <<task_proxies, gp_inst>>

\* get_proxy, the UPDATE ... WHERE id = ?, commit, and the return of the row.
GetProxyUpdate(c) ==
    /\ gp_pc[c] = "selected"
    /\ task_proxies' = UpdateStatus(task_proxies, gp_row[c], "in_use")
    /\ gp_ret' = [gp_ret EXCEPT ![c] = gp_row[c]]
    /\ gp_pc' = [gp_pc EXCEPT ![c] = "returned"]
    /\ pool_lock' = [pool_lock EXCEPT ![gp_inst[c]] = 0]
    /\ UNCHANGED <<gp_inst, gp_row>>

(***************************************************************************)
(* CircuitBreaker                                                          *)
(***************************************************************************)
CbCallers == {1, 2}

FailureTypes == {"CONSECUTIVE", "PERCENTAGE", "TOTAL"}

\* failure_rate_threshold = 0.5, kept as a percentage
FailureRatePercent == 50

\* self._results_window.count(False)
FailureCount(w) == Cardinality({i \in 1..Len(w) : w[i] = FALSE})

\* the append without the pop(0)
PushResultUnbounded(cfg, w, outcome) ==
    IF cfg.failure_type \in {"PERCENTAGE", "TOTAL"}
      THEN Append(w, outcome)
      ELSE w

\* _results_window.append(outcome); pop(0) when longer than window_size
\* (only under PERCENTAGE and TOTAL).
PushResult(cfg, w, outcome) ==
    IF cfg.failure_type \in {"PERCENTAGE", "TOTAL"}
      THEN LET w1 == Append(w, outcome) IN
           IF Len(w1) > cfg.window_size THEN Tail(w1) ELSE w1
      ELSE w

\* a transition that keeps the time of the previous state change
TransitionKeepsTime(b, new_state, now) ==
    [b EXCEPT !.state = new_state]

\* _transition_to_state: the new state and the time of the change.
TransitionToState(b, new_state, now) ==
    [b EXCEPT !.state = new_state, !.last_state_change = now]

\* _on_success without the HALF_OPEN -> CLOSED transition
OnSuccessStaysHalfOpen(b, cfg, now) ==
    [b EXCEPT !.consecutive_failures = 0,
              !.results_window = PushResult(cfg, @, TRUE)]

\* _on_success
OnSuccess(b, cfg, now) ==
    LET b1 == [b EXCEPT !.consecutive_failures = 0,
                        !.results_window = PushResult(cfg, @, TRUE)]
    IN IF b1.state = "HALF_OPEN"
         THEN TransitionToState(b1, "CLOSED", now)
         ELSE b1

\* the CONSECUTIVE threshold test with > in place of >=
ConsecutiveTripsStrict(b, cfg) ==
    b.state = "CLOSED" /\ b.consecutive_failures > cfg.failure_threshold

\* the threshold test of the CONSECUTIVE policy
ConsecutiveTrips(b, cfg) ==
    b.state = "CLOSED" /\ b.consecutive_failures >= cfg.failure_threshold

\* the threshold test of the PERCENTAGE policy
PercentageTrips(b, cfg) ==
    /\ b.state = "CLOSED"
    /\ Len(b.results_window) >= Min(cfg.window_size, 3)
    /\ FailureCount(b.results_window) * 100
          >= cfg.failure_rate_percent * Len(b.results_window)

\* the threshold test of the TOTAL policy
TotalTrips(b, cfg) ==
    b.state = "CLOSED" /\ FailureCount(b.results_window) >= cfg.failure_threshold

\* _on_failure
OnFailure(b, cfg, now) ==
    LET b1 == [b EXCEPT !.results_window = PushResult(cfg, @, FALSE)]
        b2 == IF cfg.failure_type = "CONSECUTIVE"
                THEN LET b11 == [b1 EXCEPT !.consecutive_failures = @ + 1] IN
                     IF ConsecutiveTrips(b11, cfg)
                       THEN TransitionToState(b11, "OPEN", now) ELSE b11
              ELSE IF cfg.failure_type = "PERCENTAGE" /\ Len(b1.results_window) > 0
                THEN IF PercentageTrips(b1, cfg)
                       THEN TransitionToState(b1, "OPEN", now) ELSE b1
              ELSE IF cfg.failure_type = "TOTAL"
                THEN IF TotalTrips(b1, cfg)
                       THEN TransitionToState(b1, "OPEN", now) ELSE b1
              ELSE b1
    IN IF b2.state = "HALF_OPEN"
         THEN TransitionToState(b2, "OPEN", now)
         ELSE b2

\* an admission check that re-opens the breaker when it refuses a trial
AdmitReopens(b, cfg, now) ==
    IF b.state = "CLOSED"
      THEN [cb |-> b, allow |-> TRUE]
    ELSE IF b.state = "OPEN"
      THEN IF now > b.last_state_change + cfg.reset_timeout
             THEN [cb |-> [TransitionToState(b, "HALF_OPEN", now)
                              EXCEPT !.half_open_trial_count = 1],
                   allow |-> TRUE]
             ELSE [cb |-> b, allow |-> FALSE]
    ELSE IF b.half_open_trial_count < cfg.half_open_max_trials
      THEN [cb |-> [b EXCEPT !.half_open_trial_count = @ + 1], allow |-> TRUE]
      ELSE [cb |-> TransitionToState(b, "OPEN", now), allow |-> FALSE]

\* The admission check at the head of execute: the breaker afterwards and
\* whether the request is allowed.
Admit(b, cfg, now) ==
    IF b.state = "CLOSED"
      THEN [cb |-> b, allow |-> TRUE]
    ELSE IF b.state = "OPEN"
      THEN IF now > b.last_state_change + cfg.reset_timeout
             THEN [cb |-> [TransitionToState(b, "HALF_OPEN", now)
                              EXCEPT !.half_open_trial_count = 1],
                   allow |-> TRUE]
             ELSE [cb |-> b, allow |-> FALSE]
    ELSE IF b.half_open_trial_count < cfg.half_open_max_trials
      THEN [cb |-> [b EXCEPT !.half_open_trial_count = @ + 1], allow |-> TRUE]
      ELSE [cb |-> b, allow |-> FALSE]

\* reset
ResetBreaker(b, now) ==
    [TransitionToState(b, "CLOSED", now)
        EXCEPT !.consecutive_failures = 0,
               !.results_window = <<>>,
               !.half_open_trial_count = 0]

\* __init__ at time `now`
NewBreaker(now) ==
    [state |-> "CLOSED", consecutive_failures |-> 0, last_state_change |-> now,
     half_open_trial_count |-> 0, results_window |-> <<>>]

NoExec == [from_open |-> FALSE, failure_seen |-> FALSE]

NoOp == [op |-> "none", caller |-> 0, from_open |-> FALSE, failure_seen |-> FALSE]

CbConfigs ==
    [failure_type : FailureTypes,
     failure_threshold : 1..MaxThreshold,
     reset_timeout : 1..MaxResetTimeout,
     window_size : 1..MaxWindow,
     failure_rate_percent : {FailureRatePercent},
     half_open_max_trials : 1..MaxTrials]

CbInit ==
    /\ cb_cfg \in CbConfigs
    /\ cb_now = 0
    /\ cb = NewBreaker(0)
    /\ ex_pc = [c \in CbCallers |-> "idle"]
    /\ ex_info = [c \in CbCallers |-> NoExec]
    /\ cb_run = 0
    /\ cb_last = NoOp

\* The breaker as the other specifications leave it.
CbIdle ==
    /\ cb_cfg = [failure_type |-> "CONSECUTIVE", failure_threshold |-> 1,
                 reset_timeout |-> 1, window_size |-> 1,
                 failure_rate_percent |-> FailureRatePercent,
                 half_open_max_trials |-> 1]
    /\ cb_now = 0
    /\ cb = NewBreaker(0)
    /\ ex_pc = [c \in CbCallers |-> "idle"]
    /\ ex_info = [c \in CbCallers |-> NoExec]
    /\ cb_run = 0
    /\ cb_last = NoOp

\* Every running execute call has now seen a failure being reported.
MarkFailureSeen(info, pc) ==
    [c \in CbCallers |->
        IF pc[c] = "running" THEN [info[c] EXCEPT !.failure_seen = TRUE]
        ELSE info[c]]

\* execute: the admission check under the lock, and the action is entered.
ExecuteAdmitted(c) ==
    /\ ex_pc[c] = "idle"
    /\ Admit(cb, cb_cfg, cb_now).allow
    /\ cb' = Admit(cb, cb_cfg, cb_now).cb
    /\ ex_pc' = [ex_pc EXCEPT ![c] = "running"]
    /\ ex_info' = [ex_info EXCEPT ![c] =
                     [from_open |-> cb.state = "OPEN", failure_seen |-> FALSE]]
    /\ cb_last' = [op |-> "admitted", caller |-> c,
                   from_open |-> cb.state = "OPEN", failure_seen |-> FALSE]
    /\ UNCHANGED <<cb_cfg, cb_now, cb_run>>

\* execute: the request is refused (fallback result or RuntimeError).
ExecuteRejected(c) ==
    /\ ex_pc[c] = "idle"
    /\ ~Admit(cb, cb_cfg, cb_now).allow
    /\ cb' = Admit(cb, cb_cfg, cb_now).cb
    /\ cb_last' = [op |-> "rejected", caller |-> c,
                   from_open |-> FALSE, failure_seen |-> FALSE]
    /\ UNCHANGED <<cb_cfg, cb_now, ex_pc, ex_info, cb_run>>

\* execute: action() returned, _on_success()
ExecuteSucceeds(c) ==
    /\ ex_pc[c] = "running"
    /\ cb' = OnSuccess(cb, cb_cfg, cb_now)
    /\ ex_pc' = [ex_pc EXCEPT ![c] = "idle"]
    /\ ex_info' = [ex_info EXCEPT ![c] = NoExec]
    /\ cb_run' = -1
    /\ cb_last' = [op |-> "exec_success", caller |-> c,
                   from_open |-> ex_info[c].from_open,
                   failure_seen |-> ex_info[c].failure_seen]
    /\ UNCHANGED <<cb_cfg, cb_now>>

\* execute: action() raised, _on_failure(str(e))
ExecuteFails(c) ==
    /\ ex_pc[c] = "running"
    /\ cb.consecutive_failures < MaxCbFailures
    /\ cb' = OnFailure(cb, cb_cfg, cb_now)
    /\ ex_pc' = [ex_pc EXCEPT ![c] = "idle"]
    /\ ex_info' = MarkFailureSeen([ex_info EXCEPT ![c] = NoExec],
                                  [ex_pc EXCEPT ![c] = "idle"])
    /\ cb_run' = IF cb_run >= 0 THEN Min(cb_run + 1, MaxCbFailures) ELSE cb_run
    /\ cb_last' = [op |-> "failure", caller |-> c,
                   from_open |-> ex_info[c].from_open,
                   failure_seen |-> ex_info[c].failure_seen]
    /\ UNCHANGED <<cb_cfg, cb_now>>

\* report_success
ReportSuccess ==
    /\ cb' = OnSuccess(cb, cb_cfg, cb_now)
    /\ cb_run' = -1
    /\ cb_last' = [op |-> "report_success", caller |-> 0,
                   from_open |-> FALSE, failure_seen |-> FALSE]
    /\ UNCHANGED <<cb_cfg, cb_now, ex_pc, ex_info>>

\* report_failure
ReportFailure ==
    /\ cb.consecutive_failures < MaxCbFailures
    /\ cb' = OnFailure(cb, cb_cfg, cb_now)
    /\ ex_info' = MarkFailureSeen(ex_info, ex_pc)
    /\ cb_run' = IF cb_run >= 0 THEN Min(cb_run + 1, MaxCbFailures) ELSE cb_run
    /\ cb_last' = [op |-> "failure", caller |-> 0,
                   from_open |-> FALSE, failure_seen |-> FALSE]
    /\ UNCHANGED <<cb_cfg, cb_now, ex_pc>>

\* reset
Reset ==
    /\ cb' = ResetBreaker(cb, cb_now)
    /\ cb_run' = 0
    /\ cb_last' = [op |-> "reset", caller |-> 0,
                   from_open |-> FALSE, failure_seen |-> FALSE]
    /\ UNCHANGED <<cb_cfg, cb_now, ex_pc, ex_info>>

\* time passes
CbTick ==
    /\ cb_now < MaxCbTime
    /\ cb_now' = cb_now + 1
    /\ UNCHANGED <<cb, cb_cfg, ex_pc, ex_info, cb_run, cb_last>>

(***************************************************************************)
(* ProxyManager: the per-source-type proxy cache and get_proxy             *)
(***************************************************************************)
PmTasks == {1, 2}

\* max_retries of get_proxy
GetProxyMaxRetries == 3

\* cache.ttl and cache.failure_ttl (seconds) as _load_config defaults them
PmCacheTtl == 300

PmFailureTtl == 30

\* the clock is observed at its start and then once every cache.ttl seconds
PmTimes == {1 + k * PmCacheTtl : k \in 0..MaxPmTicks}

\* get_proxy gives up one retry later than max_retries
RetriesExhaustedLate(retry_count) == retry_count > GetProxyMaxRetries

\* get_proxy: if retry_count >= max_retries: return {}
RetriesExhausted(retry_count) == retry_count >= GetProxyMaxRetries

\* the initial entry of self._proxy_cache[source_type]; proxy 0 is None
EmptyCache == [proxy |-> 0, has_result |-> FALSE, expiry_time |-> 0, failures |-> 0]

\* the cache test of get_proxy with the expiry comparison dropped
CacheAnswersIgnoringExpiry(cache, now) ==
    cache.proxy # 0 /\ cache.has_result

\* get_proxy: cache["proxy"] and cache["check_result"] and now < expiry_time
CacheAnswers(cache, now) ==
    cache.proxy # 0 /\ cache.has_result /\ now < cache.expiry_time

\* _update_proxy_cache(source_type, proxy, result, True)
UpdateCacheSuccess(cache, rec, now) ==
    [proxy |-> rec, has_result |-> TRUE, expiry_time |-> now + PmCacheTtl,
     failures |-> 0]

\* _update_proxy_cache(source_type, {}, result, False).  The counter is only
\* ever compared with cfg.max_failures <= MaxPmFailures, so it is kept
\* saturated at MaxPmFailures.
UpdateCacheFailure(cache, cfg, now) ==
    [proxy |-> 0, has_result |-> TRUE,
     expiry_time |-> IF cache.failures + 1 >= cfg.max_failures
                     THEN 0 ELSE now + PmFailureTtl,
     failures |-> Min(cache.failures + 1, MaxPmFailures)]

\* the settings read by ProxyManager and FixedProxySource: the source type,
\* whether proxy.fixed.host/port are set, whether check_availability has
\* filled FixedProxySource._cached_proxy, and cache.max_failures
PmConfigs ==
    { c \in [source : {"direct", "fixed"}, configured : BOOLEAN,
             prechecked : BOOLEAN, max_failures : 1..MaxMaxFailures] :
        /\ c.source = "direct" => (c.configured /\ ~c.prechecked)
        /\ c.prechecked => c.configured }

NoAnchor == [rec |-> 0, expiry_time |-> 0]

\* a task with no get_proxy call in progress
NoCall == [retry |-> 0, attempts |-> 0, ret |-> 0, probed |-> FALSE,
           after |-> 0, forced |-> FALSE]

PmInit ==
    /\ pm_cache = EmptyCache
    /\ pm_cfg \in PmConfigs
    /\ pm_now = 1
    /\ pm_pc = [t \in PmTasks |-> "idle"]
    /\ pm_call = [t \in PmTasks |-> NoCall]
    /\ pm_next_id = 1
    /\ pm_anchor = NoAnchor

PmIdle ==
    /\ pm_cache = EmptyCache
    /\ pm_cfg = [source |-> "direct", configured |-> TRUE, prechecked |-> FALSE,
                 max_failures |-> 1]
    /\ pm_now = 1
    /\ pm_pc = [t \in PmTasks |-> "idle"]
    /\ pm_call = [t \in PmTasks |-> NoCall]
    /\ pm_next_id = 1
    /\ pm_anchor = NoAnchor

\* where a get_proxy attempt goes after a cache miss
AfterMiss(cfg) == IF cfg.source = "direct" THEN "probing" ELSE "source"

\* the record of the earliest successful get_proxy that is still inside the
\* expiry time it set, with no report_proxy_failure / refresh_proxy_cache
\* since (0 if none)
LiveAnchor == IF pm_anchor.rec # 0 /\ pm_now < pm_anchor.expiry_time
              THEN pm_anchor.rec ELSE 0

\* that record, for a call made now: the call is also before the expiry time
\* the entry holds at this moment
AnchorForCall == IF pm_now < pm_cache.expiry_time THEN LiveAnchor ELSE 0

\* get_proxy(source_type): entry and cache test (lines 105-130)
PmGetProxy(t) ==
    /\ pm_pc[t] = "idle"
    /\ LET hit == CacheAnswers(pm_cache, pm_now)
       IN /\ pm_call' = [pm_call EXCEPT ![t] =
                            [retry |-> 0, attempts |-> IF hit THEN 0 ELSE 1,
                             ret |-> IF hit THEN pm_cache.proxy ELSE 0,
                             probed |-> FALSE, after |-> AnchorForCall,
                             forced |-> pm_cache.failures >= pm_cfg.max_failures]]
          /\ pm_pc' = [pm_pc EXCEPT ![t] = IF hit THEN "done" ELSE AfterMiss(pm_cfg)]
    /\ UNCHANGED <<pm_cache, pm_cfg, pm_now, pm_next_id, pm_anchor>>

\* the end of asyncio.sleep(1) and the recursive get_proxy(retry_count + 1)
PmRetry(t) ==
    /\ pm_pc[t] = "sleeping"
    /\ LET hit == CacheAnswers(pm_cache, pm_now)
           r == pm_call[t].retry + 1
           over == RetriesExhausted(r)
       IN /\ pm_call' = [pm_call EXCEPT ![t].retry = r,
                             ![t].attempts = IF over \/ hit THEN @ ELSE @ + 1,
                             ![t].ret = IF ~over /\ hit
                                        THEN pm_cache.proxy ELSE 0]
          /\ pm_pc' = [pm_pc EXCEPT ![t] =
                          IF over \/ hit THEN "done" ELSE AfterMiss(pm_cfg)]
    /\ UNCHANGED <<pm_cache, pm_cfg, pm_now, pm_next_id, pm_anchor>>

\* 'fixed': fixed_source.get_proxies(1) on the executor returns.  With host or
\* port unset it returns [] without probing; with no cached check it probes
\* the proxy itself and returns [] when that probe fails.
PmSourceFetch(t) ==
    /\ pm_pc[t] = "source"
    /\ \E ok \in BOOLEAN :
        LET probes == pm_cfg.configured /\ ~pm_cfg.prechecked
            yields == pm_cfg.configured /\ (pm_cfg.prechecked \/ ok)
        IN /\ pm_call' = [pm_call EXCEPT ![t].probed = @ \/ probes]
           /\ IF yields
              THEN /\ pm_pc' = [pm_pc EXCEPT ![t] = "probing"]
                   /\ UNCHANGED pm_cache
              ELSE /\ pm_cache' = UpdateCacheFailure(pm_cache, pm_cfg, pm_now)
                   /\ pm_pc' = [pm_pc EXCEPT ![t] = "sleeping"]
    /\ UNCHANGED <<pm_cfg, pm_now, pm_next_id, pm_anchor>>

\* check_proxy returns (success, result); the cache is updated and the call
\* returns the new record or sleeps before retrying
PmProbeDone(t) ==
    /\ pm_pc[t] = "probing"
    /\ \E ok \in BOOLEAN :
        IF ok
        THEN /\ pm_next_id <= MaxRecords
             /\ pm_cache' = UpdateCacheSuccess(pm_cache, pm_next_id, pm_now)
             /\ pm_call' = [pm_call EXCEPT ![t].probed = TRUE, ![t].ret = pm_next_id]
             /\ pm_pc' = [pm_pc EXCEPT ![t] = "done"]
             /\ pm_next_id' = pm_next_id + 1
             /\ pm_anchor' = IF LiveAnchor # 0 THEN pm_anchor
                             ELSE [rec |-> pm_next_id,
                                   expiry_time |-> pm_now + PmCacheTtl]
        ELSE /\ pm_cache' = UpdateCacheFailure(pm_cache, pm_cfg, pm_now)
             /\ pm_call' = [pm_call EXCEPT ![t].probed = TRUE]
             /\ pm_pc' = [pm_pc EXCEPT ![t] = "sleeping"]
             /\ UNCHANGED <<pm_next_id, pm_anchor>>
    /\ UNCHANGED <<pm_cfg, pm_now>>

\* the caller takes the returned value; the task is free for another call
PmReturn(t) ==
    /\ pm_pc[t] = "done"
    /\ pm_pc' = [pm_pc EXCEPT ![t] = "idle"]
    /\ pm_call' = [pm_call EXCEPT ![t] = NoCall]
    /\ UNCHANGED <<pm_cache, pm_cfg, pm_now, pm_next_id, pm_anchor>>

\* report_proxy_failure(source_type)
PmReportFailure ==
    /\ pm_cache' = [pm_cache EXCEPT !.failures = Min(@ + 1, MaxPmFailures),
                                    !.expiry_time = 0]
    /\ pm_anchor' = NoAnchor
    /\ UNCHANGED <<pm_cfg, pm_now, pm_pc, pm_call, pm_next_id>>

\* refresh_proxy_cache(source_type): expire the entry, then get_proxy
PmRefresh(t) ==
    /\ pm_pc[t] = "idle"
    /\ pm_cache' = [pm_cache EXCEPT !.expiry_time = 0]
    /\ pm_anchor' = NoAnchor
    /\ pm_call' = [pm_call EXCEPT ![t] =
                      [retry |-> 0, attempts |-> 1, ret |-> 0, probed |-> FALSE,
                       after |-> 0,
                       forced |-> pm_cache.failures >= pm_cfg.max_failures]]
    /\ pm_pc' = [pm_pc EXCEPT ![t] = AfterMiss(pm_cfg)]
    /\ UNCHANGED <<pm_cfg, pm_now, pm_next_id>>

\* time passes
PmTick ==
    /\ pm_now + PmCacheTtl \in PmTimes
    /\ pm_now' = pm_now + PmCacheTtl
    /\ UNCHANGED <<pm_cache, pm_cfg, pm_pc, pm_call, pm_next_id, pm_anchor>>

(***************************************************************************)
(* ProxyChecker test-URL rotation and IPDetector API rotation              *)
(***************************************************************************)
\* self._test_urls and self.ip_apis, in list order
TestUrls == <<"url_a", "url_b">>

IpApis == <<"api_a", "api_b">>

UrlSet == {TestUrls[i] : i \in 1..Len(TestUrls)}

ApiSet == {IpApis[i] : i \in 1..Len(IpApis)}

\* status codes passed to _mark_url_blocked here: the default 0 of the
\* generic-exception path and 429 of RATE_LIMIT_STATUS_CODES
MarkStatusCodes == {0, 429}

DefaultCooldown == 60

TooManyRequestsCooldown == 300

ForbiddenCooldown == 600

UnavailableCooldown == 900

\* _mark_url_blocked: cooldown_time by status code
CooldownTime(status_code) ==
    IF status_code = 429 THEN TooManyRequestsCooldown
    ELSE IF status_code = 403 THEN ForbiddenCooldown
    ELSE IF status_code = 503 THEN UnavailableCooldown
    ELSE DefaultCooldown

\* update_api_state: every ApiFailureBlock-th failure blocks for ApiBlockTime
ApiFailureBlock == 5

ApiBlockTime == 300

\* the clock is observed at its start and then every EpStep seconds
EpStep == ApiBlockTime

EpTimes == {1 + k * EpStep : k \in 0..MaxEpTicks}

\* an endpoint filter that treats no API as cooling down
ApiNeverCoolingDown(state, now) == FALSE

\* get_next_available_api: current_time < state["blocked_until"]
ApiCoolingDown(state, now) == now < state.blocked_until

\* the URLs _get_next_available_url releases: current_time > cooldown_until
UrlsReleased(blocked, cooldown, now) == {u \in blocked : now > cooldown[u]}

\* position of a URL in self._test_urls
UrlIndex(u) == CHOOSE i \in 1..Len(TestUrls) : TestUrls[i] = u

\* sorted(available_urls, key=last_used)[0]: least last_used, list order on ties
FirstByLastUsed(avail, last_used) ==
    CHOOSE u \in avail :
        \A v \in avail :
            \/ last_used[u] < last_used[v]
            \/ last_used[u] = last_used[v] /\ UrlIndex(u) <= UrlIndex(v)

NoSelection == [kind |-> "none", ep |-> "", fail_open |-> FALSE, early |-> FALSE,
                all_cooled |-> FALSE]

EpInit ==
    /\ url_status = [u \in UrlSet |-> TRUE]
    /\ blocked_urls = {}
    /\ url_cooldown = [u \in UrlSet |-> 0]
    /\ url_last_used = [u \in UrlSet |-> 0]
    /\ api_states = [a \in ApiSet |-> [failure_count |-> 0, blocked_until |-> 0]]
    /\ ep_now = 1
    /\ ep_last = NoSelection

EpIdle == EpInit

\* ProxyChecker._get_next_available_url
GetNextAvailableUrl ==
    LET released == UrlsReleased(blocked_urls, url_cooldown, ep_now)
        blocked1 == blocked_urls \ released
        status1 == [u \in UrlSet |-> IF u \in released THEN TRUE ELSE url_status[u]]
        avail == {u \in UrlSet : u \notin blocked1 /\ status1[u]}
        reset == avail = {}
        last1 == IF reset THEN [u \in UrlSet |-> 0] ELSE url_last_used
        sel == FirstByLastUsed(IF reset THEN UrlSet ELSE avail, last1)
    IN /\ url_status' = IF reset THEN [u \in UrlSet |-> TRUE] ELSE status1
       /\ blocked_urls' = IF reset THEN {} ELSE blocked1
       /\ url_cooldown' = IF reset THEN [u \in UrlSet |-> 0] ELSE url_cooldown
       /\ url_last_used' = [last1 EXCEPT ![sel] = ep_now]
       /\ ep_last' = [kind |-> "url", ep |-> sel, fail_open |-> reset,
                      early |-> sel \in blocked_urls /\ ep_now < url_cooldown[sel],
                      all_cooled |-> \A u \in UrlSet :
                                        u \in blocked_urls /\ ep_now <= url_cooldown[u]]
       /\ UNCHANGED <<api_states, ep_now>>

\* ProxyChecker._mark_url_blocked(url, status_code)
MarkUrlBlocked(u, status_code) ==
    /\ url_status' = [url_status EXCEPT ![u] = FALSE]
    /\ blocked_urls' = blocked_urls \cup {u}
    /\ url_cooldown' = [url_cooldown EXCEPT ![u] = ep_now + CooldownTime(status_code)]
    /\ UNCHANGED <<url_last_used, api_states, ep_now, ep_last>>

\* ProxyChecker.update_test_urls(urls) with the same list: the tracking is
\* initialised again
UpdateTestUrls ==
    /\ url_status' = [u \in UrlSet |-> TRUE]
    /\ blocked_urls' = {}
    /\ url_cooldown' = [u \in UrlSet |-> 0]
    /\ url_last_used' = [u \in UrlSet |-> 0]
    /\ UNCHANGED <<api_states, ep_now, ep_last>>

\* ProxyChecker._create_url_groups finding every URL in _blocked_urls: the
\* tracking is initialised again (otherwise it changes nothing)
CreateUrlGroups ==
    /\ blocked_urls = UrlSet
    /\ url_status' = [u \in UrlSet |-> TRUE]
    /\ blocked_urls' = {}
    /\ url_cooldown' = [u \in UrlSet |-> 0]
    /\ url_last_used' = [u \in UrlSet |-> 0]
    /\ UNCHANGED <<api_states, ep_now, ep_last>>

\* IPDetector.get_next_available_api (last_used and success_count of an API
\* state are written and never read; they are left out)
GetNextAvailableApi ==
    LET avail == {a \in ApiSet : ~ApiCoolingDown(api_states[a], ep_now)}
        reset == avail = {}
    IN /\ \E sel \in (IF reset THEN ApiSet ELSE avail) :
            ep_last' = [kind |-> "api", ep |-> sel, fail_open |-> reset,
                        early |-> ep_now < api_states[sel].blocked_until,
                        all_cooled |-> \A a \in ApiSet :
                                          ep_now < api_states[a].blocked_until]
       /\ api_states' = IF reset
                        THEN [a \in ApiSet |-> [api_states[a] EXCEPT !.blocked_until = 0]]
                        ELSE api_states
       /\ UNCHANGED <<url_status, blocked_urls, url_cooldown, url_last_used, ep_now>>

\* IPDetector.update_api_state(api_url, success)
UpdateApiState(a) ==
    /\ \E success \in BOOLEAN :
        IF success
        THEN UNCHANGED api_states
        ELSE /\ api_states[a].failure_count < MaxApiFailures
             /\ LET n == api_states[a].failure_count + 1
                IN api_states' = [api_states EXCEPT ![a] =
                        [failure_count |-> n,
                         blocked_until |-> IF n % ApiFailureBlock = 0
                                           THEN ep_now + ApiBlockTime
                                           ELSE @.blocked_until]]
    /\ UNCHANGED <<url_status, blocked_urls, url_cooldown, url_last_used, ep_now, ep_last>>

\* time passes
EpTick ==
    /\ ep_now + EpStep \in EpTimes
    /\ ep_now' = ep_now + EpStep
    /\ UNCHANGED <<url_status, blocked_urls, url_cooldown, url_last_used, api_states,
                   ep_last>>

(***************************************************************************)
(* ProxyChecker.batch_check_async: one batch of proxies, each probed by    *)
(* _check_with_semaphore -> check_proxy_async -> _check_connection_async   *)
(***************************************************************************)
BatchIds == 1..MaxBatch

\* what one HTTP attempt of _check_connection_async (proxy mode) comes to:
\*   "ok"          status 200 and the IP-region test passed or skipped
\*   "proxy_error" aiohttp.ClientProxyConnectionError
\*   "rejected"    a status outside RATE_LIMIT_STATUS_CODES, or the IP-region
\*                 test failed: returns False at once
\*   "retryable"   timeout, SSL error, a rate-limit status or another
\*                 exception: tried again while attempt < max_retries
AttemptOutcomes == {"ok", "proxy_error", "rejected", "retryable"}

\* for attempt in range(self.max_retries + 1): attempt = attempts made so far
HasAnotherAttempt(attempts, max_retries) == attempts < max_retries + 1

\* asyncio.Semaphore(min(self.max_workers, len(batch_proxies)))
SemaphoreSize(cfg) == Min(cfg.max_workers, cfg.n)

BcRunning == {i \in BatchIds : bc_pc[i] = "running"}

\* the statistics loop over batch_results (lines 873-898)
BatchStatistics(n, result) ==
    [total |-> n,
     available |-> Cardinality({i \in 1..n : result[i] = "success"}),
     unavailable |-> Cardinality({i \in 1..n : result[i] # "success"})]

NoStatistics == [total |-> 0, available |-> 0, unavailable |-> 0]

BcConfigs == [n : 1..MaxBatch, max_retries : 0..MaxCheckRetries,
              max_workers : 1..MaxWorkers]

BcInit ==
    /\ bc_cfg \in BcConfigs
    /\ bc_pc = [i \in BatchIds |-> IF i <= bc_cfg.n THEN "queued" ELSE "absent"]
    /\ bc_attempts = [i \in BatchIds |-> 0]
    /\ bc_result = [i \in BatchIds |-> "none"]
    /\ bc_stats = NoStatistics
    /\ bc_done = FALSE

BcIdle ==
    /\ bc_cfg = [n |-> 1, max_retries |-> 0, max_workers |-> 1]
    /\ bc_pc = [i \in BatchIds |-> IF i <= 1 THEN "queued" ELSE "absent"]
    /\ bc_attempts = [i \in BatchIds |-> 0]
    /\ bc_result = [i \in BatchIds |-> "none"]
    /\ bc_stats = NoStatistics
    /\ bc_done = FALSE

\* _check_with_semaphore: async with semaphore, then the random delay
CheckWithSemaphoreEnter(i) ==
    /\ bc_pc[i] = "queued"
    /\ Cardinality(BcRunning) < SemaphoreSize(bc_cfg)
    /\ bc_pc' = [bc_pc EXCEPT ![i] = "running"]
    /\ UNCHANGED <<bc_cfg, bc_attempts, bc_result, bc_stats, bc_done>>

\* with max_retries = 0 the body of "for retry in range(self.max_retries)"
\* never runs and "return proxy, success, result" raises UnboundLocalError,
\* which gather(return_exceptions=True) hands back as the task's result
CheckWithSemaphoreRaises(i) ==
    /\ bc_pc[i] = "running"
    /\ bc_cfg.max_retries = 0
    /\ bc_pc' = [bc_pc EXCEPT ![i] = "finished"]
    /\ bc_result' = [bc_result EXCEPT ![i] = "raised"]
    /\ UNCHANGED <<bc_cfg, bc_attempts, bc_stats, bc_done>>

\* check_proxy_async: format_proxy_url returns None, no request is sent
ProxyFormatInvalid(i) ==
    /\ bc_pc[i] = "running"
    /\ bc_cfg.max_retries > 0
    /\ bc_attempts[i] = 0
    /\ bc_pc' = [bc_pc EXCEPT ![i] = "finished"]
    /\ bc_result' = [bc_result EXCEPT ![i] = "failed"]
    /\ UNCHANGED <<bc_cfg, bc_attempts, bc_stats, bc_done>>

\* one session.get of _check_connection_async and what follows it; the
\* wrapper returns the outcome of its single check_proxy_async call
CheckConnectionAttempt(i) ==
    /\ bc_pc[i] = "running"
    /\ bc_cfg.max_retries > 0
    /\ HasAnotherAttempt(bc_attempts[i], bc_cfg.max_retries)
    /\ bc_attempts' = [bc_attempts EXCEPT ![i] = @ + 1]
    /\ \E outcome \in AttemptOutcomes :
        LET final == outcome # "retryable"
                       \/ ~HasAnotherAttempt(bc_attempts[i] + 1, bc_cfg.max_retries)
        IN /\ bc_pc' = [bc_pc EXCEPT ![i] = IF final THEN "finished" ELSE "running"]
           /\ bc_result' = [bc_result EXCEPT ![i] =
                  IF ~final THEN "none"
                  ELSE IF outcome = "ok" THEN "success"
                  ELSE IF outcome = "proxy_error" THEN "proxy_error"
                  ELSE "failed"]
    /\ UNCHANGED <<bc_cfg, bc_stats, bc_done>>

\* asyncio.gather returns; the statistics are computed and returned
GatherResults ==
    /\ ~bc_done
    /\ \A i \in 1..bc_cfg.n : bc_pc[i] = "finished"
    /\ bc_stats' = BatchStatistics(bc_cfg.n, bc_result)
    /\ bc_done' = TRUE
    /\ UNCHANGED <<bc_cfg, bc_pc, bc_attempts, bc_result>>

(***************************************************************************)
(* CountryMapper: the mapping table and match_country_code.  Chinese names *)
(* are written as bracketed transliterations; str.upper() leaves them      *)
(* unchanged.  The tables are cut down to the rows of six codes.           *)
(***************************************************************************)
GeoCodes == <<"CN", "HK", "TW", "MO", "JP", "US">>

\* data.CODE_TO_CHINESE_NAME
CodeToChineseName ==
    [c \in {"CN", "HK", "TW", "MO", "JP", "US"} |->
        CASE c = "CN" -> "[zhongguo]"
          [] c = "HK" -> "[xianggang]"
          [] c = "TW" -> "[taiwan]"
          [] c = "MO" -> "[aomen]"
          [] c = "JP" -> "[riben]"
          [] c = "US" -> "[meiguo]"]

\* data.CODE_TO_ENGLISH_NAME
CodeToEnglishName ==
    [c \in {"CN", "HK", "TW", "MO", "JP", "US"} |->
        CASE c = "CN" -> "China"
          [] c = "HK" -> "Hong Kong"
          [] c = "TW" -> "Taiwan"
          [] c = "MO" -> "Macau"
          [] c = "JP" -> "Japan"
          [] c = "US" -> "United States"]

\* data.COUNTRY_CODE_ALIASES, flattened in iteration order to <<alias, code>>
CountryCodeAliases ==
    << <<"CHINA", "CN">>, <<"MAINLAND", "CN">>, <<"ZHONGGUO", "CN">>,
       <<"[zhongguo dalu]", "CN">>, <<"[zhongguo neidi]", "CN">>,
       <<"[zhonghua renmin gongheguo]", "CN">>, <<"[zhonghua]", "CN">>,
       <<"[dalu]", "CN">>,
       <<"USA", "US">>, <<"AMERICA", "US">>, <<"UNITED STATES", "US">>,
       <<"[meiguo]", "US">>, <<"[meilijian]", "US">>,
       <<"[meilijian hezhongguo]", "US">>,
       <<"HONG KONG", "HK">>, <<"HONGKONG", "HK">>, <<"[xianggang]", "HK">>,
       <<"[xianggang tebie xingzhengqu]", "HK">>, <<"[gang]", "HK">>,
       <<"TAIWAN", "TW">>, <<"[taiwan]", "TW">>, <<"[zhongguo taiwan]", "TW">>,
       <<"[taiwan sheng]", "TW">>, <<"[tai]", "TW">>,
       <<"MACAO", "MO">>, <<"MACAU", "MO">>, <<"[aomen]", "MO">>,
       <<"[aomen tebie xingzhengqu]", "MO">>, <<"[ao]", "MO">>,
       <<"JAPAN", "JP">>, <<"[riben]", "JP">>, <<"[ri]", "JP">> >>

\* str.upper() on the strings that occur here
Upper(s) ==
    CASE s = "China" -> "CHINA"
      [] s = "Hong Kong" -> "HONG KONG"
      [] s = "Taiwan" -> "TAIWAN"
      [] s = "Macau" -> "MACAU"
      [] s = "Japan" -> "JAPAN"
      [] s = "United States" -> "UNITED STATES"
      [] s = "cn" -> "CN"
      [] s = "hk" -> "HK"
      [] s = "tw" -> "TW"
      [] s = "mo" -> "MO"
      [] OTHER -> s

\* str.strip() on the strings that occur here
Strip(s) ==
    CASE s = " CN " -> "CN"
      [] s = " HK " -> "HK"
      [] OTHER -> s

\* country_name.startswith('中国')
StartsWithZhongguo(s) ==
    s \in {"[zhongguo]", "[zhongguo dalu]", "[zhongguo neidi]",
           "[zhongguo taiwan]", "[zhongguo xianggang]"}

\* "if key not in mapping: mapping[key] = value" over a list of pairs
RECURSIVE AddMissing(_, _)
AddMissing(mapping, pairs) ==
    IF pairs = <<>> THEN mapping
    ELSE LET k == Head(pairs)[1]
             v == Head(pairs)[2]
             m1 == IF k \in DOMAIN mapping THEN mapping
                   ELSE [x \in DOMAIN mapping \cup {k} |->
                            IF x = k THEN v ELSE mapping[x]]
         IN AddMissing(m1, Tail(pairs))

\* dict.update
Update(m1, m2) ==
    [x \in DOMAIN m1 \cup DOMAIN m2 |-> IF x \in DOMAIN m2 THEN m2[x] ELSE m1[x]]

\* <<name, code>> for every code, in table order
ReversePairs(names) == [i \in 1..Len(GeoCodes) |-> <<names[GeoCodes[i]], GeoCodes[i]>>]

\* _init_country_mapping, steps 1 to 5
MappingBeforeUpper ==
    AddMissing(
        AddMissing(
            AddMissing(Update(CodeToChineseName, CodeToEnglishName),
                       ReversePairs(CodeToChineseName)),
            ReversePairs(CodeToEnglishName)),
        CountryCodeAliases)

\* _init_country_mapping, step 6: upper-case keys that are not yet keys (two
\* keys with one upper-case form here never carry different values)
CountryMapping ==
    LET m == MappingBeforeUpper
        newKeys == {Upper(k) : k \in DOMAIN m} \ DOMAIN m
    IN [x \in DOMAIN m \cup newKeys |->
            IF x \in DOMAIN m THEN m[x]
            ELSE m[CHOOSE k \in DOMAIN m : Upper(k) = x]]

NoCode == "None"

\* get_country_code with Hong Kong, Taiwan and Macau folded into CN
GetCountryCodeFoldingRegions(country_name) ==
    IF country_name = "" THEN NoCode
    ELSE LET name == Strip(country_name)
             code == IF name \in DOMAIN CountryMapping THEN CountryMapping[name]
                     ELSE IF Upper(name) \in DOMAIN CountryMapping
                          THEN CountryMapping[Upper(name)]
                     ELSE IF StartsWithZhongguo(name) THEN "CN"
                     ELSE NoCode
         IN IF name \in {"HK", "TW", "MO", "CN"} THEN "CN" ELSE code

\* CountryMapper.get_country_code
GetCountryCode(country_name) ==
    IF country_name = "" THEN NoCode
    ELSE LET name == Strip(country_name)
         IN IF name \in DOMAIN CountryMapping THEN CountryMapping[name]
            ELSE IF Upper(name) \in DOMAIN CountryMapping
                 THEN CountryMapping[Upper(name)]
            ELSE IF StartsWithZhongguo(name) THEN "CN"
            ELSE NoCode

\* step 2 of match_country_code: replace a code by its upper-cased mapping
MappedCode(code) ==
    LET mapped == GetCountryCode(code)
    IN IF mapped # NoCode /\ mapped # "" THEN Upper(mapped) ELSE code

\* CountryMapper.match_country_code
MatchCountryCode(detected_code, target_code) ==
    IF detected_code = "" \/ target_code = "" THEN FALSE
    ELSE LET detected0 == Upper(Strip(detected_code))
             target0 == Upper(Strip(target_code))
             detected == MappedCode(detected0)
             target == MappedCode(target0)
         IN IF detected0 = target0 THEN TRUE
            ELSE IF detected = target THEN TRUE
            ELSE IF target = "CN" /\ detected \in {"HK", "TW", "MO"} THEN FALSE
            ELSE IF target \in {"HK", "TW", "MO"} /\ detected = "CN" THEN FALSE
            ELSE FALSE

\* the arguments tried
GeoInputs == {"CN", "HK", "TW", "MO", "JP", "US", "cn", "hk", " CN ", " HK ",
              "China", "CHINA", "Hong Kong", "TAIWAN", "[zhongguo]",
              "[xianggang]", "[zhongguo xianggang]", "XX", ""}

GeoInit ==
    /\ geo_detected \in GeoInputs
    /\ geo_target \in GeoInputs
    /\ geo_called = FALSE
    /\ geo_result = FALSE

GeoIdle ==
    /\ geo_detected = ""
    /\ geo_target = ""
    /\ geo_called = FALSE
    /\ geo_result = FALSE

\* a call match_country_code(geo_detected, geo_target)
MatchCountryCodeCall ==
    /\ ~geo_called
    /\ geo_called' = TRUE
    /\ geo_result' = MatchCountryCode(geo_detected, geo_target)
    /\ UNCHANGED <<geo_detected, geo_target>>

(***************************************************************************)
(* TaskProxyPool monitor: monitor_pool_for_tasks, stop_monitoring and the  *)
(* tasks running _monitor_pool_async on one event loop.  A step of a       *)
(* coroutine runs from one await to the next without interruption.         *)
(***************************************************************************)
MonitorTaskIds == 1..MaxMonitorTasks

TotalTasksInputs == {1, 2}

ProxySourceInputs == {"api", "pool", "other"}

\* states of an asyncio task running _monitor_pool_async
\*   absent      not created
\*   created     scheduled by create_task, not yet run
\*   replenish   awaiting get_proxies_batch in _check_and_replenish_proxies
\*   sleep       awaiting asyncio.sleep(check_interval)
\*   cancelling  cancel() was called, CancelledError not yet delivered
\*   done        left the while loop
\*   cancelled   ended by CancelledError
LiveStates == {"created", "replenish", "sleep", "cancelling"}

\* not task.done()
Live(tasks, t) == t # 0 /\ tasks[t] \in LiveStates

LiveTasks(tasks) == {t \in MonitorTaskIds : Live(tasks, t)}

\* task.done()
Terminated(tasks, t) == t = 0 \/ tasks[t] \in {"done", "cancelled"}

\* task.cancel()
Cancel(tasks, t) ==
    IF Live(tasks, t) THEN [tasks EXCEPT ![t] = "cancelling"] ELSE tasks

NoStop == [pc |-> "idle", target |-> 0, second |-> 0]

NoStart == [while_live |-> FALSE, created |-> FALSE, changed |-> FALSE]

NotStopped == [active |-> FALSE, target |-> 0, requested |-> FALSE]

\* TaskProxyPool.__init__
MonInit ==
    /\ should_monitor = FALSE
    /\ total_tasks = 0
    /\ proxy_source = "None"
    /\ monitor_task = 0
    /\ mon_tasks = [t \in MonitorTaskIds |-> "absent"]
    /\ mon_stop = NoStop
    /\ mon_start = NoStart
    /\ mon_after_stop = NotStopped

MonIdle == MonInit

\* monitor_pool_for_tasks(total, source)
MonitorPoolForTasks(total, source) ==
    /\ mon_after_stop' = NotStopped
    /\ IF should_monitor \/ source \notin {"api", "pool"}
       THEN /\ mon_start' = [while_live |-> LiveTasks(mon_tasks) # {},
                             created |-> FALSE, changed |-> FALSE]
            /\ UNCHANGED <<should_monitor, total_tasks, proxy_source,
                           monitor_task, mon_tasks, mon_stop>>
       ELSE /\ \E t \in MonitorTaskIds : mon_tasks[t] = "absent"
            /\ LET t == SetMin({u \in MonitorTaskIds : mon_tasks[u] = "absent"})
               IN /\ total_tasks' = total
                  /\ proxy_source' = source
                  /\ should_monitor' = TRUE
                  /\ monitor_task' = t
                  /\ mon_tasks' = [mon_tasks EXCEPT ![t] = "created"]
                  /\ mon_start' = [while_live |-> LiveTasks(mon_tasks) # {},
                                   created |-> TRUE, changed |-> TRUE]
            /\ UNCHANGED mon_stop

\* _monitor_pool_async: the test of the while loop, then one call of
\* _check_and_replenish_proxies up to its first await
MonitorPoolAsyncCycle(t) ==
    /\ mon_tasks[t] \in {"created", "sleep"}
    /\ IF should_monitor
       THEN \E short \in BOOLEAN :
              IF short
              THEN /\ mon_tasks' = [mon_tasks EXCEPT ![t] = "replenish"]
                   /\ mon_after_stop' =
                        IF mon_after_stop.active
                        THEN [mon_after_stop EXCEPT !.requested = TRUE]
                        ELSE mon_after_stop
              ELSE /\ mon_tasks' = [mon_tasks EXCEPT ![t] = "sleep"]
                   /\ UNCHANGED mon_after_stop
       ELSE /\ mon_tasks' = [mon_tasks EXCEPT ![t] = "done"]
            /\ UNCHANGED mon_after_stop
    /\ UNCHANGED <<should_monitor, total_tasks, proxy_source, monitor_task,
                   mon_stop, mon_start>>

\* get_proxies_batch returns; the task goes on to asyncio.sleep
CheckAndReplenishReturns(t) ==
    /\ mon_tasks[t] = "replenish"
    /\ mon_tasks' = [mon_tasks EXCEPT ![t] = "sleep"]
    /\ UNCHANGED <<should_monitor, total_tasks, proxy_source, monitor_task,
                   mon_stop, mon_start, mon_after_stop>>

\* CancelledError is raised at the task's await and ends it
MonitorTaskCancelled(t) ==
    /\ mon_tasks[t] = "cancelling"
    /\ mon_tasks' = [mon_tasks EXCEPT ![t] = "cancelled"]
    /\ UNCHANGED <<should_monitor, total_tasks, proxy_source, monitor_task,
                   mon_stop, mon_start, mon_after_stop>>

\* stop_monitoring up to its await of wait_for(self._monitor_task, 3.0)
StopMonitoring ==
    /\ mon_stop.pc = "idle"
    /\ IF ~should_monitor
       THEN UNCHANGED <<should_monitor, mon_stop, mon_after_stop>>
       ELSE /\ should_monitor' = FALSE
            /\ IF Live(mon_tasks, monitor_task)
               THEN /\ mon_stop' = [pc |-> "waiting", target |-> monitor_task,
                                    second |-> 0]
                    /\ UNCHANGED mon_after_stop
               ELSE /\ mon_after_stop' = [active |-> TRUE,
                                          target |-> monitor_task,
                                          requested |-> FALSE]
                    /\ UNCHANGED mon_stop
    /\ UNCHANGED <<total_tasks, proxy_source, monitor_task, mon_tasks, mon_start>>

\* the awaited task ended within the timeout; stop_monitoring returns
StopWaitReturns ==
    /\ mon_stop.pc = "waiting"
    /\ Terminated(mon_tasks, mon_stop.target)
    /\ mon_stop' = NoStop
    /\ mon_after_stop' = [active |-> TRUE, target |-> mon_stop.target,
                          requested |-> FALSE]
    /\ UNCHANGED <<should_monitor, total_tasks, proxy_source, monitor_task,
                   mon_tasks, mon_start>>

\* the timeout of wait_for expires: wait_for cancels the awaited task and
\* waits for it to end before raising TimeoutError
StopWaitTimesOut ==
    /\ mon_stop.pc = "waiting"
    /\ Live(mon_tasks, mon_stop.target)
    /\ mon_tasks' = Cancel(mon_tasks, mon_stop.target)
    /\ mon_stop' = [mon_stop EXCEPT !.pc = "timed_out"]
    /\ UNCHANGED <<should_monitor, total_tasks, proxy_source, monitor_task,
                   mon_start, mon_after_stop>>

\* the TimeoutError handler: self._monitor_task.cancel(), then await it
StopCancelsMonitorTask ==
    /\ mon_stop.pc = "timed_out"
    /\ Terminated(mon_tasks, mon_stop.target)
    /\ mon_tasks' = Cancel(mon_tasks, monitor_task)
    /\ IF Live(mon_tasks, monitor_task)
       THEN /\ mon_stop' = [mon_stop EXCEPT !.pc = "awaiting_cancel",
                                            !.second = monitor_task]
            /\ UNCHANGED mon_after_stop
       ELSE /\ mon_stop' = NoStop
            /\ mon_after_stop' = [active |-> TRUE, target |-> mon_stop.target,
                                  requested |-> FALSE]
    /\ UNCHANGED <<should_monitor, total_tasks, proxy_source, monitor_task,
                   mon_start>>

\* the task cancelled by the handler has ended; stop_monitoring returns
StopCancelReturns ==
    /\ mon_stop.pc = "awaiting_cancel"
    /\ Terminated(mon_tasks, mon_stop.second)
    /\ mon_stop' = NoStop
    /\ mon_after_stop' = [active |-> TRUE, target |-> mon_stop.target,
                          requested |-> FALSE]
    /\ UNCHANGED <<should_monitor, total_tasks, proxy_source, monitor_task,
                   mon_tasks, mon_start>>

(***************************************************************************)
(* The task-pool store as ProxyManager uses it: batch_add_proxies (called  *)
(* by _save_to_task_pool for every get_proxies_batch, the monitor's        *)
(* replenishment included), get_proxy_from_task_pool, mark_task_proxy_used *)
(* and the sqlite3 errors these calls can meet.  A row's id is its         *)
(* position in store_rows.                                                 *)
(***************************************************************************)
TpCallers == {1}

\* host 0 stands for a proxy without host: batch_add_proxies skips it
StoreHosts == {0, 1}

\* the values of username and password: SQL NULL (Python None) or a string
StoreCreds == {"NULL", "u"}

\* the proxy dictionaries handed to batch_add_proxies
StoreProxies ==
    { p \in [host : StoreHosts, username : StoreCreds, password : StoreCreds] :
        /\ p.username = p.password
        /\ p.host = 0 => p.username = "NULL" }

\* the lists handed to batch_add_proxies: one proxy, or two
AddLists == { <<p>> : p \in StoreProxies }
            \cup { <<p, q>> : p \in {r \in StoreProxies : r.host # 0},
                              q \in {r \in StoreProxies : r.host # 0} }

\* where sqlite3.Error is raised in a call: at one of its statements or at
\* commit.  An error of connect has the effect of an error of commit in
\* batch_add_proxies and of an error of the statement in the other calls:
\* nothing was written and the outer handler returns.
StoreErrors == {"none", "statement", "commit"}

\* CONSTRAINT unique_proxy UNIQUE (host, port, username, password): SQLite
\* compares NULL as different from every value, NULL included
UniqueConflict(row, p) ==
    /\ row.host = p.host
    /\ row.port = 8080
    /\ row.username = p.username /\ p.username # "NULL"
    /\ row.password = p.password /\ p.password # "NULL"

\* INSERT OR REPLACE: a conflicting row is made 'available' again
InsertOrReplace(rows, p) ==
    IF \E i \in 1..Len(rows) : UniqueConflict(rows[i], p)
    THEN [i \in 1..Len(rows) |->
            IF UniqueConflict(rows[i], p)
            THEN [rows[i] EXCEPT !.status = "available"] ELSE rows[i]]
    ELSE Append(rows, [host |-> p.host, port |-> 8080, username |-> p.username,
                       password |-> p.password, status |-> "available"])

\* INSERT OR IGNORE INTO task_proxies (...) VALUES (..., 'available')
InsertOrIgnore(rows, p) ==
    IF \E i \in 1..Len(rows) : UniqueConflict(rows[i], p)
    THEN rows
    ELSE Append(rows, [host |-> p.host, port |-> 8080, username |-> p.username,
                       password |-> p.password, status |-> "available"])

\* the loop of batch_add_proxies over proxy_list[from..]; bad is the index of
\* the proxy whose INSERT raises (0 for none).  The result is the table and
\* the two counters.
RECURSIVE BatchAddLoop(_, _, _, _)
BatchAddLoop(acc, list, from, bad) ==
    IF from > Len(list) THEN acc
    ELSE LET p == list[from]
             after == InsertOrIgnore(acc.rows, p)
         IN IF p.host = 0 \/ from = bad \/ after = acc.rows
            THEN BatchAddLoop([acc EXCEPT !.fail = @ + 1], list, from + 1, bad)
            ELSE BatchAddLoop([acc EXCEPT !.rows = after, !.success = @ + 1],
                              list, from + 1, bad)

\* conn.rollback() without the rollback: the uncommitted changes stay
RollbackKeepsChanges(before, now) == now

\* conn.rollback() in the handlers of sqlite3.Error
Rollback(before, now) == before

\* the value a store call returns when it has caught sqlite3.Error
FailureValue(op, n) ==
    IF op = "batch_add_proxies" THEN <<0, n>> ELSE <<0>>

NoStoreOp == [op |-> "none", err |-> "none", ret |-> <<>>, n |-> 0,
              kept |-> TRUE, readded_failed |-> FALSE]

\* the record of a store call: what it was, where sqlite3.Error was raised,
\* the value returned, the length of the list given to batch_add_proxies,
\* whether every row was left as it was, and whether the list named a proxy
\* whose row was 'failed'
StoreOp(op, err, ret, n, kept, readded) ==
    [op |-> op, err |-> err, ret |-> ret, n |-> n, kept |-> kept,
     readded_failed |-> readded]

StoreInit ==
    /\ store_rows = <<>>
    /\ st_cfg = [max_proxy_retries |-> MaxProxyRetries]
    /\ tp_pc = [c \in TpCallers |-> "idle"]
    /\ tp_id = [c \in TpCallers |-> 0]
    /\ tp_retry = [c \in TpCallers |-> 0]
    /\ tp_outcome = [c \in TpCallers |-> "none"]
    /\ st_last = NoStoreOp

StoreIdle ==
    /\ store_rows = <<>>
    /\ st_cfg = [max_proxy_retries |-> 1]
    /\ tp_pc = [c \in TpCallers |-> "idle"]
    /\ tp_id = [c \in TpCallers |-> 0]
    /\ tp_retry = [c \in TpCallers |-> 0]
    /\ tp_outcome = [c \in TpCallers |-> "none"]
    /\ st_last = NoStoreOp

tpUnchanged == <<st_cfg, tp_pc, tp_id, tp_retry, tp_outcome>>

\* batch_add_proxies(list); err says where sqlite3.Error is raised: at the
\* INSERT of proxy number bad, at commit, or nowhere
BatchAddProxies(list, err, bad) ==
    /\ bad \in (IF err = "statement" THEN 1..Len(list) ELSE {0})
    /\ bad # 0 => list[bad].host # 0
    /\ LET n == Len(list)
           run == BatchAddLoop([rows |-> store_rows, success |-> 0, fail |-> 0],
                               list, 1, bad)
           readded == \E i \in 1..Len(store_rows) : \E k \in 1..n :
                         /\ store_rows[i].status = "failed"
                         /\ store_rows[i].host = list[k].host
                         /\ store_rows[i].username = list[k].username
                         /\ store_rows[i].password = list[k].password
           after == IF err = "commit" THEN Rollback(store_rows, run.rows)
                    ELSE run.rows
           ret == IF err = "commit" THEN <<0, n>>
                  ELSE <<run.success, run.fail>>
       IN /\ Len(run.rows) <= MaxStoreRows
          /\ store_rows' = after
          /\ st_last' = StoreOp("batch_add_proxies", err, ret, n,
                                after = store_rows, readded)
    /\ UNCHANGED tpUnchanged

\* get_proxy_from_task_pool(retry_count): the retry test, then the SELECT of
\* TaskProxyPool.get_proxy on an executor thread.  In position "get" the call
\* has handled a failed check of row tp_id and is about to look for the next.
TpGetProxySelect(c, err) ==
    /\ tp_pc[c] \in {"idle", "get"}
    /\ err \in {"none", "statement"}
    /\ LET retry == IF tp_pc[c] = "idle" THEN 0 ELSE tp_retry[c]
           id == SelectOldestAvailable(store_rows)
       IN /\ tp_retry' = [tp_retry EXCEPT ![c] = retry]
          /\ IF retry >= st_cfg.max_proxy_retries
             THEN /\ tp_pc' = [tp_pc EXCEPT ![c] = "returned"]
                  /\ tp_id' = [tp_id EXCEPT ![c] = 0]
                  /\ err = "none"
                  /\ UNCHANGED st_last
             ELSE IF err # "none" \/ id = 0
             THEN /\ tp_pc' = [tp_pc EXCEPT ![c] = "returned"]
                  /\ tp_id' = [tp_id EXCEPT ![c] = 0]
                  /\ st_last' = StoreOp("get_proxy", err, <<0>>, 0, TRUE, FALSE)
             ELSE /\ tp_pc' = [tp_pc EXCEPT ![c] = "update"]
                  /\ tp_id' = [tp_id EXCEPT ![c] = id]
                  /\ UNCHANGED st_last
    /\ tp_outcome' = [tp_outcome EXCEPT ![c] =
                         IF tp_pc[c] = "idle" THEN "none" ELSE @]
    /\ UNCHANGED <<store_rows, st_cfg>>

\* TaskProxyPool.get_proxy: UPDATE ... SET status = 'in_use' WHERE id = ?,
\* commit, and the return of the row
TpGetProxyUpdate(c, err) ==
    /\ tp_pc[c] = "update"
    /\ LET updated == UpdateStatus(store_rows, tp_id[c], "in_use")
           after == IF err = "none" THEN updated
                    ELSE Rollback(store_rows,
                             IF err = "commit" THEN updated ELSE store_rows)
       IN /\ store_rows' = after
          /\ st_last' = StoreOp("get_proxy", err,
                                IF err = "none" THEN <<1>> ELSE <<0>>, 0,
                                after = store_rows, FALSE)
          /\ IF err = "none"
             THEN /\ tp_pc' = [tp_pc EXCEPT ![c] = "probing"]
                  /\ UNCHANGED tp_id
             ELSE /\ tp_pc' = [tp_pc EXCEPT ![c] = "returned"]
                  /\ tp_id' = [tp_id EXCEPT ![c] = 0]
    /\ UNCHANGED <<st_cfg, tp_retry, tp_outcome>>

\* check_proxy(proxy) returns: success, a failure of the proxy itself, or a
\* failure whose only cause is a rate-limit answer of the test endpoint
TpCheckProxy(c, outcome) ==
    /\ tp_pc[c] = "probing"
    /\ tp_outcome' = [tp_outcome EXCEPT ![c] = outcome]
    /\ tp_pc' = [tp_pc EXCEPT ![c] = IF outcome = "ok" THEN "returned" ELSE "mark"]
    /\ UNCHANGED <<store_rows, st_cfg, tp_id, tp_retry, st_last>>

\* the failed check is handled: mark_proxy_status(proxy['id'], 'failed'),
\* then the recursive call with retry_count + 1
TpMarkFailed(c, err) ==
    /\ tp_pc[c] = "mark"
    /\ LET updated == UpdateStatus(store_rows, tp_id[c], "failed")
           after == IF err = "none" THEN updated
                    ELSE Rollback(store_rows,
                             IF err = "commit" THEN updated ELSE store_rows)
       IN /\ store_rows' = after
          /\ st_last' = StoreOp("mark_proxy_status", err,
                                IF err = "none" THEN <<1>> ELSE <<0>>, 0,
                                after = store_rows, FALSE)
    /\ tp_retry' = [tp_retry EXCEPT ![c] = @ + 1]
    /\ tp_pc' = [tp_pc EXCEPT ![c] = "get"]
    /\ UNCHANGED <<st_cfg, tp_id, tp_outcome>>

\* the caller takes the value returned by get_proxy_from_task_pool
TpReturn(c) ==
    /\ tp_pc[c] = "returned"
    /\ tp_pc' = [tp_pc EXCEPT ![c] = "idle"]
    /\ tp_id' = [tp_id EXCEPT ![c] = 0]
    /\ tp_retry' = [tp_retry EXCEPT ![c] = 0]
    /\ tp_outcome' = [tp_outcome EXCEPT ![c] = "none"]
    /\ UNCHANGED <<store_rows, st_cfg, st_last>>

\* mark_task_proxy_used(proxy_id): mark_proxy_status(proxy_id, 'used')
MarkTaskProxyUsed(id, err) ==
    /\ LET updated == UpdateStatus(store_rows, id, "used")
           after == IF err = "none" THEN updated
                    ELSE Rollback(store_rows,
                             IF err = "commit" THEN updated ELSE store_rows)
       IN /\ store_rows' = after
          /\ st_last' = StoreOp("mark_proxy_status", err,
                                IF err = "none" /\ id <= Len(store_rows)
                                THEN <<1>> ELSE <<0>>, 0,
                                after = store_rows, FALSE)
    /\ UNCHANGED tpUnchanged

\* the status arguments given to mark_proxy_status: the four documented
\* values and a string that is none of them
StatusArgs == {"available", "in_use", "used", "failed", "done"}

\* mark_proxy_status(proxy_id, status), called on the TaskProxyPool itself
MarkProxyStatus(id, status, err) ==
    /\ LET updated == UpdateStatus(store_rows, id, status)
           after == IF err = "none" THEN updated
                    ELSE Rollback(store_rows,
                             IF err = "commit" THEN updated ELSE store_rows)
       IN /\ store_rows' = after
          /\ st_last' = StoreOp("mark_proxy_status", err,
                                IF err = "none" /\ id <= Len(store_rows)
                                THEN <<1>> ELSE <<0>>, 0,
                                after = store_rows, FALSE)
    /\ UNCHANGED tpUnchanged

(***************************************************************************)
(* CircuitBreaker: the synchronous and the asynchronous API on one         *)
(* breaker, its two locks and its listeners                                *)
(***************************************************************************)
\* a thread that calls execute
\* the listeners add_listener registers, in this order
SyncListeners == {1, 2}

\* the listener add_async_listener registers
AsyncListeners == {1}

\* a listener call may raise: no listener does, or one of the n
\* synchronous or of the m asynchronous ones
Raising(n, m) ==
    {[sync |-> {}, async |-> {}]}
        \cup {[sync |-> {i}, async |-> {}] : i \in 1..n}
        \cup {[sync |-> {}, async |-> {j}] : j \in 1..m}

SyncCallers == {"t1"}

\* a coroutine that calls execute_async
AsyncCallers == {"c1"}

ApiCallers == SyncCallers \cup AsyncCallers

\* the lock a caller's API takes: self._lock or self._async_lock
ApiOf(c) == IF c \in SyncCallers THEN "sync" ELSE "async"

\* the reset-timeout test with >= in place of >
ResetTimeoutElapsedInclusive(b, cfg, now) ==
    now >= b.last_state_change + cfg.reset_timeout

\* time.time() > self._last_state_change + self.reset_timeout
ResetTimeoutElapsed(b, cfg, now) ==
    now > b.last_state_change + cfg.reset_timeout

\* The branch the admission check of execute / execute_async takes.
AdmitBranch(b, cfg, now) ==
    IF b.state = "CLOSED" THEN "closed"
    ELSE IF b.state = "OPEN"
      THEN IF ResetTimeoutElapsed(b, cfg, now) THEN "to_half_open"
           ELSE "open_reject"
    ELSE IF b.half_open_trial_count < cfg.half_open_max_trials THEN "trial"
    ELSE "trial_reject"

\* the ghost count of admitted actions stops one above the largest limit
MaxAdmitted == MaxTrials + 1

AllowBranches == {"closed", "to_half_open", "trial"}

\* the listener loop without its try/except: the first exception ends it
\* and leaves the transition
CallListenersUnguarded(n, raising) ==
    IF raising \cap (1..n) = {}
      THEN [notified |-> 1..n, escaped |-> FALSE]
      ELSE [notified |-> 1..SetMin(raising \cap (1..n)), escaped |-> TRUE]

\* for listener in self._listeners: try: listener(event) except Exception
\* (listeners are numbered in the order of registration)
CallListeners(n, raising) ==
    [notified |-> 1..n, escaped |-> FALSE]

\* The listeners a transition calls: _transition_to_state runs the loop
\* over _listeners, _transition_to_state_async runs it over _listeners and
\* then over _async_listeners.
Delivered(api, n, m, rs, ra) ==
    [sync |-> CallListeners(n, rs),
     async |-> IF api = "async" THEN CallListeners(m, ra)
               ELSE [notified |-> {}, escaped |-> FALSE]]

NoEvent ==
    [api |-> "none", new_state |-> "CLOSED", state_after |-> "CLOSED",
     raised |-> [sync |-> {}, async |-> {}], escaped |-> FALSE,
     missed |-> [sync |-> {}, async |-> {}],
     unreached |-> [sync |-> {}, async |-> {}]]

\* What one call of _transition_to_state(_async) did: the state it set,
\* the listeners that raised, whether an exception left the call, the
\* registered listeners it did not call, and the listeners its own
\* loops did not reach.
Event(api, new_state, state_after, n, m, r) ==
    LET d == Delivered(api, n, m, r.sync, r.async)
        loops == Delivered(api, n, m, {}, {}) IN
    [api |-> api, new_state |-> new_state, state_after |-> state_after,
     raised |-> [sync |-> r.sync \cap d.sync.notified,
                 async |-> r.async \cap d.async.notified],
     escaped |-> d.sync.escaped \/ d.async.escaped,
     missed |-> [sync |-> (1..n) \ d.sync.notified,
                 async |-> (1..m) \ d.async.notified],
     unreached |-> [sync |-> loops.sync.notified \ d.sync.notified,
                    async |-> loops.async.notified \ d.async.notified]]

NoDecision ==
    [open_within |-> FALSE, allowed |-> FALSE, state_after |-> "CLOSED"]

ApiConfigs ==
    [failure_type : {"CONSECUTIVE"},
     failure_threshold : {1},
     reset_timeout : {1},
     window_size : {1},
     failure_rate_percent : {FailureRatePercent},
     half_open_max_trials : 1..MaxTrials]

ApiInit ==
    /\ api_cfg \in ApiConfigs
    /\ api_now = 0
    /\ api_cb = NewBreaker(0)
    /\ api_pc = [c \in ApiCallers |-> "idle"]
    /\ api_lock = [sync |-> "free", async |-> "free"]
    /\ listeners = 0
    /\ async_listeners = 0
    /\ api_event = NoEvent
    /\ api_admitted = 0
    /\ api_last = NoDecision

\* The breaker as the other specifications leave it.
ApiIdle ==
    /\ api_cfg = [failure_type |-> "CONSECUTIVE", failure_threshold |-> 1,
                  reset_timeout |-> 1, window_size |-> 1,
                  failure_rate_percent |-> FailureRatePercent,
                  half_open_max_trials |-> 1]
    /\ api_now = 0
    /\ api_cb = NewBreaker(0)
    /\ api_pc = [c \in ApiCallers |-> "idle"]
    /\ api_lock = [sync |-> "free", async |-> "free"]
    /\ listeners = 0
    /\ async_listeners = 0
    /\ api_event = NoEvent
    /\ api_admitted = 0
    /\ api_last = NoDecision

\* add_listener
AddListener ==
    /\ api_lock.sync = "free"
    /\ listeners < Cardinality(SyncListeners)
    /\ listeners' = listeners + 1
    /\ UNCHANGED <<api_cb, api_cfg, api_now, api_pc, api_lock, async_listeners,
                   api_event, api_admitted, api_last>>

\* add_async_listener
AddAsyncListener ==
    /\ api_lock.sync = "free"
    /\ async_listeners < Cardinality(AsyncListeners)
    /\ async_listeners' = async_listeners + 1
    /\ UNCHANGED <<api_cb, api_cfg, api_now, api_pc, api_lock, listeners,
                   api_event, api_admitted, api_last>>

\* execute / execute_async: the caller takes the lock of its API and
\* evaluates the state tests.  A refused request and a request through a
\* CLOSED breaker leave the lock at once; the other two branches have
\* their writes still to do.
ExecuteCheck(c) ==
    LET br == AdmitBranch(api_cb, api_cfg, api_now) IN
    /\ api_pc[c] = "idle"
    /\ api_lock[ApiOf(c)] = "free"
    /\ api_pc' = [api_pc EXCEPT ![c] =
                    IF br = "closed" THEN "running"
                    ELSE IF br \in AllowBranches THEN br
                    ELSE "idle"]
    /\ api_lock' = [api_lock EXCEPT ![ApiOf(c)] =
                      IF br \in {"to_half_open", "trial"} THEN c ELSE "free"]
    /\ api_last' = [open_within |-> /\ api_cb.state = "OPEN"
                                    /\ api_now <= api_cb.last_state_change
                                                    + api_cfg.reset_timeout,
                    allowed |-> br \in AllowBranches,
                    state_after |-> api_cb.state]
    /\ UNCHANGED <<api_cb, api_cfg, api_now, listeners, async_listeners,
                   api_event, api_admitted>>

\* execute, OPEN branch: _transition_to_state(HALF_OPEN), allow_request,
\* _half_open_trial_count = 1, and the lock is left.
ExecuteToHalfOpen(c, r) ==
    /\ c \in SyncCallers
    /\ api_pc[c] = "to_half_open"
    /\ api_cb' = [TransitionToState(api_cb, "HALF_OPEN", api_now)
                     EXCEPT !.half_open_trial_count = 1]
    /\ api_event' = Event("sync", "HALF_OPEN", api_cb'.state, listeners,
                          async_listeners, r)
    /\ api_pc' = [api_pc EXCEPT ![c] = "running"]
    /\ api_lock' = [api_lock EXCEPT !.sync = "free"]
    /\ api_admitted' = 1
    /\ UNCHANGED <<api_cfg, api_now, listeners, async_listeners, api_last>>

\* execute_async, OPEN branch: await _transition_to_state_async(HALF_OPEN)
ExecuteAsyncToHalfOpen(c, r) ==
    /\ c \in AsyncCallers
    /\ api_pc[c] = "to_half_open"
    /\ api_cb' = TransitionToState(api_cb, "HALF_OPEN", api_now)
    /\ api_event' = Event("async", "HALF_OPEN", api_cb'.state, listeners,
                          async_listeners, r)
    /\ api_pc' = [api_pc EXCEPT ![c] = "transitioned"]
    /\ api_admitted' = 0
    /\ UNCHANGED <<api_cfg, api_now, api_lock, listeners, async_listeners,
                   api_last>>

\* execute_async, OPEN branch after the await: allow_request,
\* _half_open_trial_count = 1, and the lock is left.
ExecuteAsyncFirstTrial(c) ==
    /\ c \in AsyncCallers
    /\ api_pc[c] = "transitioned"
    /\ api_cb' = [api_cb EXCEPT !.half_open_trial_count = 1]
    /\ api_pc' = [api_pc EXCEPT ![c] = "running"]
    /\ api_lock' = [api_lock EXCEPT !.async = "free"]
    /\ api_admitted' = Min(api_admitted + 1, MaxAdmitted)
    /\ UNCHANGED <<api_cfg, api_now, listeners, async_listeners, api_event,
                   api_last>>

\* execute / execute_async, HALF_OPEN branch: allow_request,
\* _half_open_trial_count += 1, and the lock is left.
ExecuteTrial(c) ==
    /\ api_pc[c] = "trial"
    /\ api_cb' = [api_cb EXCEPT !.half_open_trial_count = @ + 1]
    /\ api_pc' = [api_pc EXCEPT ![c] = "running"]
    /\ api_lock' = [api_lock EXCEPT ![ApiOf(c)] = "free"]
    /\ api_admitted' = Min(api_admitted + 1, MaxAdmitted)
    /\ UNCHANGED <<api_cfg, api_now, listeners, async_listeners, api_event,
                   api_last>>

\* A transition made by _on_success / _on_failure, if there was one.
EventOf(api, before, after, r) ==
    IF after.state # before.state
      THEN Event(api, after.state, after.state, listeners, async_listeners, r)
      ELSE api_event

\* The number of admitted actions restarts with every transition.
AdmittedAfter(before, after) ==
    IF after.state # before.state THEN 0 ELSE api_admitted

\* execute / execute_async: the action returned or raised, and
\* _on_success / _on_failure (or their async versions) run under the
\* lock of the caller's API.
ExecuteReturns(c, ok, r) ==
    LET after == IF ok THEN OnSuccess(api_cb, api_cfg, api_now)
                 ELSE OnFailure(api_cb, api_cfg, api_now) IN
    /\ api_pc[c] = "running"
    /\ api_lock[ApiOf(c)] = "free"
    /\ ok \/ api_cb.consecutive_failures < MaxRunFailures
    /\ api_cb' = after
    /\ api_event' = EventOf(ApiOf(c), api_cb, after, r)
    /\ api_admitted' = AdmittedAfter(api_cb, after)
    /\ api_pc' = [api_pc EXCEPT ![c] = "idle"]
    /\ UNCHANGED <<api_cfg, api_now, api_lock, listeners, async_listeners,
                   api_last>>

\* report_success / report_failure and their async versions
Report(api, ok, r) ==
    LET after == IF ok THEN OnSuccess(api_cb, api_cfg, api_now)
                 ELSE OnFailure(api_cb, api_cfg, api_now) IN
    /\ api_lock[api] = "free"
    /\ ok \/ api_cb.consecutive_failures < MaxRunFailures
    /\ api_cb' = after
    /\ api_event' = EventOf(api, api_cb, after, r)
    /\ api_admitted' = AdmittedAfter(api_cb, after)
    /\ UNCHANGED <<api_cfg, api_now, api_pc, api_lock, listeners,
                   async_listeners, api_last>>

\* reset / reset_async
ApiReset(api, r) ==
    /\ api_lock[api] = "free"
    /\ api_cb' = ResetBreaker(api_cb, api_now)
    /\ api_event' = Event(api, "CLOSED", api_cb'.state, listeners,
                          async_listeners, r)
    /\ api_admitted' = 0
    /\ UNCHANGED <<api_cfg, api_now, api_pc, api_lock, listeners,
                   async_listeners, api_last>>

\* time passes
ApiTick ==
    /\ api_now < MaxApiTime
    /\ api_now' = api_now + 1
    /\ UNCHANGED <<api_cb, api_cfg, api_pc, api_lock, listeners,
                   async_listeners, api_event, api_admitted, api_last>>

(***************************************************************************)
(* ProxyManager: the source types get_proxy and get_proxies_batch accept   *)
(***************************************************************************)
\* values of proxy.source in the settings and of the source_type argument
SourceTypes == {"direct", "fixed", "api", "pool", "socks"}

\* the source_type argument: None or a source type
SourceArgs == SourceTypes \cup {"None"}

\* the proxies a batch source can return
BatchProxies == {1, 2}

\* if source_type is None: source_type = self.source_type
EffectiveSource(arg, default) == IF arg = "None" THEN default ELSE arg

\* get_proxy with no test of the source type
GetProxySupportsAny(source_type) == TRUE

\* get_proxy: source_type in ["direct", "fixed"]
GetProxySupports(source_type) == source_type \in {"direct", "fixed"}

\* get_proxies_batch: source_type in ["api", "pool"]
BatchSupports(source_type) == source_type \in {"api", "pool"}

\* self._proxy_cache: for each source type seen no entry, an entry holding
\* a checked proxy, or an entry holding a failure
NoCacheEntries == [t \in SourceTypes |-> "none"]

NoDispatch ==
    [op |-> "none", source_type |-> "direct", ret |-> "None",
     probed |-> FALSE, source_called |-> FALSE, cache_same |-> TRUE,
     rows_same |-> TRUE]

\* One top-level call, what it returned and what it touched.
Dispatch(op, source_type, ret, probed, source_called, cache_same, rows_same) ==
    [op |-> op, source_type |-> source_type, ret |-> ret, probed |-> probed,
     source_called |-> source_called, cache_same |-> cache_same,
     rows_same |-> rows_same]

SdInit ==
    /\ self_source_type \in SourceTypes
    /\ proxy_cache = NoCacheEntries
    /\ pool_rows = {}
    /\ sd_last = NoDispatch

SdIdle ==
    /\ self_source_type = "direct"
    /\ proxy_cache = NoCacheEntries
    /\ pool_rows = {}
    /\ sd_last = NoDispatch

\* The cache entry after a call of get_proxy for a supported type that
\* missed the cache: the probe (after the fixed source gave a proxy)
\* succeeded, or every attempt failed.
CacheAfterMiss(cache, source_type, outcome) ==
    [cache EXCEPT ![source_type] = IF outcome = "ok" THEN "ok" ELSE "failed"]

\* await get_proxy(source_type), retries included.  `expired` says whether
\* the entry's expiry_time has passed; `outcome` is how the probes end and
\* `fixed_list` whether the fixed source returns a proxy.
GetProxyCall(arg, expired, fixed_list, outcome) ==
    LET source_type == EffectiveSource(arg, self_source_type)
        hit == proxy_cache[source_type] = "ok" /\ ~expired
        probes == source_type = "direct"
                     \/ (source_type = "fixed" /\ fixed_list)
        after == IF source_type \in {"direct", "fixed"}
                   THEN CacheAfterMiss(proxy_cache, source_type,
                                       IF probes THEN outcome ELSE "fail")
                   ELSE proxy_cache
    IN
    IF ~GetProxySupports(source_type)
      THEN /\ sd_last' = Dispatch("get_proxy", source_type, "empty",
                                  FALSE, FALSE, TRUE, TRUE)
           /\ UNCHANGED <<self_source_type, proxy_cache, pool_rows>>
    ELSE IF hit
      THEN /\ sd_last' = Dispatch("get_proxy", source_type, "proxy",
                                  FALSE, FALSE, TRUE, TRUE)
           /\ UNCHANGED <<self_source_type, proxy_cache, pool_rows>>
    ELSE /\ proxy_cache' = after
         /\ sd_last' = Dispatch("get_proxy", source_type,
                          IF source_type \notin {"direct", "fixed"} THEN "None"
                          ELSE IF probes /\ outcome = "ok" THEN "proxy"
                          ELSE "empty",
                          probes /\ source_type \in {"direct", "fixed"},
                          source_type = "fixed",
                          after = proxy_cache, TRUE)
         /\ UNCHANGED <<self_source_type, pool_rows>>

\* await get_proxies_batch(count, source_type, save_to_task_pool): `list`
\* is what the source's get_proxies returns.
GetProxiesBatchCall(arg, list, save_to_task_pool) ==
    LET source_type == EffectiveSource(arg, self_source_type)
        rows == IF save_to_task_pool /\ list # {}
                  THEN pool_rows \cup list ELSE pool_rows
    IN
    IF ~BatchSupports(source_type)
      THEN /\ sd_last' = Dispatch("get_proxies_batch", source_type, "empty",
                                  FALSE, FALSE, TRUE, TRUE)
           /\ UNCHANGED <<self_source_type, proxy_cache, pool_rows>>
      ELSE /\ pool_rows' = rows
           /\ sd_last' = Dispatch("get_proxies_batch", source_type,
                                  IF list = {} THEN "empty" ELSE "proxies",
                                  FALSE, TRUE, TRUE, rows = pool_rows)
           /\ UNCHANGED <<self_source_type, proxy_cache>>

(***************************************************************************)
(* ApiProxySource.get_proxies                                              *)
(***************************************************************************)
\* the count argument: small counts, and one large enough for the cap
ApiCounts == (0..MaxCount) \cup {200}

\* the attempt limit without its upper cap
MaxAttemptsUncapped(count) == Max(10, (count \div 2) + 10)

\* max_attempts = max(10, min(100, int(count * 0.5) + 10))
MaxAttempts(count) == Max(10, Min(100, (count \div 2) + 10))

\* what one pass of the loop meets after _respect_rate_limit (which only
\* sleeps): _call_api returns nothing, the response does not parse,
\* parsing or formatting raises, or a batch is parsed
ApiOutcomes == {"call_fails", "unparsable", "raises", "batch"}

\* proxies[:int(count)]
Returned(len, count) == Min(len, count)

AsInit ==
    /\ as_pc = "idle"
    /\ as_count = 0
    /\ as_len = 0
    /\ as_attempts = 0
    /\ as_calls = 0
    /\ as_ret = 0

\* get_proxies(count): the API URL is read, the list and the counter are
\* created.  Without an API URL the call returns [] at once.
ApiGetProxies(count, configured) ==
    /\ as_pc \in {"idle", "done"}
    /\ as_count' = count
    /\ as_len' = 0
    /\ as_attempts' = 0
    /\ as_calls' = 0
    /\ as_ret' = 0
    /\ as_pc' = IF configured THEN "loop" ELSE "done"

\* one pass of the while loop; `fresh` is the number of records of the
\* batch that are neither duplicates nor rejected by _format_proxy
ApiLoopPass(outcome, fresh) ==
    /\ as_pc = "loop"
    /\ as_len < as_count /\ as_attempts < MaxAttempts(as_count)
    /\ as_attempts' = as_attempts + 1
    /\ as_calls' = as_calls + 1
    /\ as_len' = IF outcome = "batch" THEN Min(as_len + fresh, as_count)
                 ELSE as_len
    /\ UNCHANGED <<as_pc, as_count, as_ret>>

\* the loop condition is false: return proxies[:int(count)]
ApiReturn ==
    /\ as_pc = "loop"
    /\ ~(as_len < as_count /\ as_attempts < MaxAttempts(as_count))
    /\ as_pc' = "done"
    /\ as_ret' = Returned(as_len, as_count)
    /\ UNCHANGED <<as_count, as_len, as_attempts, as_calls>>

(***************************************************************************)
(* ImportedProxySource.get_proxies on the imported-proxy store             *)
(***************************************************************************)
\* threads of the default executor running import_source.get_proxies
ImpCallers == {1, 2}

\* the ids of the rows of the table proxies
ImpIds == 1..MaxImported

\* available_proxies: every record when reuse is allowed, else the
\* records whose status is not 'used'
AvailableProxies(status, allow_reuse) ==
    IF allow_reuse THEN ImpIds ELSE {i \in ImpIds : status[i] # "used"}

\* available_proxies[:min(len(available_proxies), count)], in id order
SelectedProxies(avail, count) ==
    {i \in avail : Cardinality({j \in avail : j < i}) < count}

ImpInit ==
    /\ imp_allow_reuse \in BOOLEAN
    /\ imp_status = [i \in ImpIds |-> "unused"]
    /\ imp_pc = [c \in ImpCallers |-> "idle"]
    /\ imp_sel = [c \in ImpCallers |-> {}]
    /\ imp_todo = [c \in ImpCallers |-> {}]
    /\ imp_returns = [i \in ImpIds |-> 0]

ImpIdle ==
    /\ imp_allow_reuse = TRUE
    /\ imp_status = [i \in ImpIds |-> "unused"]
    /\ imp_pc = [c \in ImpCallers |-> "idle"]
    /\ imp_sel = [c \in ImpCallers |-> {}]
    /\ imp_todo = [c \in ImpCallers |-> {}]
    /\ imp_returns = [i \in ImpIds |-> 0]

\* get_proxies(count): proxy_pool.get_proxies() reads every row, the
\* available records are filtered and the first ones selected
ImpGetProxies(c, count) ==
    LET sel == SelectedProxies(AvailableProxies(imp_status, imp_allow_reuse),
                               count) IN
    /\ imp_pc[c] = "idle"
    /\ imp_sel' = [imp_sel EXCEPT ![c] = sel]
    /\ imp_todo' = [imp_todo EXCEPT ![c] = IF imp_allow_reuse THEN {} ELSE sel]
    /\ imp_pc' = [imp_pc EXCEPT ![c] = "selected"]
    /\ UNCHANGED <<imp_allow_reuse, imp_status, imp_returns>>

\* for proxy in selected_proxies: update_proxy_status(proxy['id'], 'used'),
\* one UPDATE and commit per record
ImpMarkUsed(c) ==
    /\ imp_pc[c] = "selected"
    /\ imp_todo[c] # {}
    /\ LET i == SetMin(imp_todo[c]) IN
        /\ imp_status' = [imp_status EXCEPT ![i] = "used"]
        /\ imp_todo' = [imp_todo EXCEPT ![c] = @ \ {i}]
    /\ UNCHANGED <<imp_allow_reuse, imp_pc, imp_sel, imp_returns>>

\* the selected records are converted and returned
ImpReturn(c) ==
    /\ imp_pc[c] = "selected"
    /\ imp_todo[c] = {}
    /\ imp_returns' = [i \in ImpIds |->
                          IF i \in imp_sel[c] THEN Min(imp_returns[i] + 1, 2)
                          ELSE imp_returns[i]]
    /\ imp_pc' = [imp_pc EXCEPT ![c] = "idle"]
    /\ imp_sel' = [imp_sel EXCEPT ![c] = {}]
    /\ UNCHANGED <<imp_allow_reuse, imp_status, imp_todo>>

(***************************************************************************)
(* TaskProxyPool: one replenishment cycle of the monitor, the executor     *)
(* threads it starts, and its cancellation                                 *)
(***************************************************************************)
\* needed_count without the minimum of min_proxies
NeededCountNoMinimum(total) == (total * 12) \div 10

\* needed_count = max(min_proxies, int(self._total_tasks * safety_factor))
\* with min_proxies = 5 and safety_factor = 1.2
NeededCount(total) == Max(5, (total * 12) \div 10)

\* get_proxies_batch: int(count * 1.5), the count given to the source
SourceCount(count) == (count * 3) \div 2

NoRequest ==
    [rows |-> 0, available |-> 0, needed |-> 0, made |-> FALSE,
     fetch_count |-> 0, source_count |-> 0]

RcInit ==
    /\ rc_total \in 0..MaxTotalTasks
    /\ rc_source \in {"api", "pool"}
    /\ rc_rows \in 0..MaxAvailable
    /\ rc_stock = MaxStock
    /\ rc_pc = "idle"
    /\ rc_thread = "none"
    /\ rc_req = NoRequest
    /\ rc_taken = 0
    /\ rc_list = 0
    /\ rc_saved = 0

RcIdle ==
    /\ rc_total = 0
    /\ rc_source = "api"
    /\ rc_rows = 0
    /\ rc_stock = MaxStock
    /\ rc_pc = "idle"
    /\ rc_thread = "none"
    /\ rc_req = NoRequest
    /\ rc_taken = 0
    /\ rc_list = 0
    /\ rc_saved = 0

\* _check_and_replenish_proxies up to its await: get_pool_stats (all zeros
\* when the store raises), needed_count, and get_proxies_batch, which
\* hands source.get_proxies(int(count * 1.5)) to an executor thread
CheckAndReplenish(stats_error) ==
    LET available == IF stats_error THEN 0 ELSE rc_rows
        needed == NeededCount(rc_total)
        fetch_count == needed - available
    IN
    /\ rc_pc \in {"idle", "sleeping"}
    /\ rc_thread = "none"
    /\ rc_rows <= MaxAvailable      \* bounds the cycles explored
    /\ rc_taken' = 0
    /\ rc_list' = 0
    /\ rc_saved' = 0
    /\ IF available < needed
         THEN /\ rc_req' = [rows |-> rc_rows, available |-> available,
                            needed |-> needed, made |-> TRUE,
                            fetch_count |-> fetch_count,
                            source_count |-> SourceCount(fetch_count)]
              /\ rc_pc' = "fetching"
              /\ rc_thread' = "source"
         ELSE /\ rc_req' = [rows |-> rc_rows, available |-> available,
                            needed |-> needed, made |-> FALSE,
                            fetch_count |-> 0,
                            source_count |-> 0]
              /\ rc_pc' = "sleeping"
              /\ rc_thread' = "none"
    /\ UNCHANGED <<rc_total, rc_source, rc_rows, rc_stock>>

\* the source thread takes one more record: the API source appends a
\* proxy to its list, the imported source (allow_reuse = false) marks a
\* selected record 'used'
SourceTakes ==
    /\ rc_thread = "source"
    /\ rc_taken < rc_req.source_count
    /\ rc_source = "pool" => rc_stock > 0
    /\ rc_taken' = rc_taken + 1
    /\ rc_stock' = IF rc_source = "pool" THEN rc_stock - 1 ELSE rc_stock
    /\ UNCHANGED <<rc_total, rc_source, rc_rows, rc_pc, rc_thread, rc_req,
                   rc_list, rc_saved>>

\* the source thread returns its list.  The coroutine, unless cancelled,
\* goes on to _save_to_task_pool when the list is not empty, which hands
\* batch_add_proxies to an executor thread.
SourceReturns ==
    /\ rc_thread = "source"
    /\ rc_source = "pool"
          => (rc_taken = rc_req.source_count \/ rc_stock = 0)
    /\ IF rc_pc = "fetching"
         THEN /\ rc_list' = rc_taken
              /\ rc_pc' = IF rc_taken > 0 THEN "saving" ELSE "sleeping"
              /\ rc_thread' = IF rc_taken > 0 THEN "save" ELSE "none"
         ELSE /\ rc_thread' = "none"
              /\ UNCHANGED <<rc_list, rc_pc>>
    /\ UNCHANGED <<rc_total, rc_source, rc_rows, rc_stock, rc_req, rc_taken,
                   rc_saved>>

\* the thread running batch_add_proxies commits the list
SaveReturns ==
    /\ rc_thread = "save"
    /\ rc_saved' = rc_list
    /\ rc_rows' = rc_rows + rc_list
    /\ rc_thread' = "none"
    /\ rc_pc' = IF rc_pc = "saving" THEN "sleeping" ELSE rc_pc
    /\ UNCHANGED <<rc_total, rc_source, rc_stock, rc_req, rc_taken, rc_list>>

\* stop_monitoring: wait_for timed out and the monitor task is cancelled
\* at the await it is suspended in
ForcedCancel ==
    /\ rc_pc \in {"fetching", "saving", "sleeping"}
    /\ rc_pc' = "cancelled"
    /\ UNCHANGED <<rc_total, rc_source, rc_rows, rc_stock, rc_thread, rc_req,
                   rc_taken, rc_list, rc_saved>>

(***************************************************************************)
(* ProxyManager._update_proxy_cache, with the failure counter kept exact   *)
(***************************************************************************)
\* cache = self._proxy_cache.get(source_type); if not cache: a new entry
CacheOrNew(present, entry) ==
    IF present THEN entry
    ELSE [proxy |-> 0, has_result |-> FALSE, expiry_time |-> 0, failures |-> 0]

\* _update_proxy_cache with a success that leaves the failure counter alone
UpdateProxyCacheNoReset(cache, proxy, success, max_failures, now) ==
    IF success
      THEN [proxy |-> proxy, has_result |-> TRUE,
            expiry_time |-> now + PmCacheTtl, failures |-> cache.failures]
      ELSE [proxy |-> 0, has_result |-> TRUE,
            expiry_time |-> IF cache.failures + 1 >= max_failures
                            THEN 0 ELSE now + PmFailureTtl,
            failures |-> cache.failures + 1]

\* _update_proxy_cache(source_type, proxy, check_result, success) on the
\* entry `cache`, at time `now`; proxy 0 is None
UpdateProxyCache(cache, proxy, success, max_failures, now) ==
    IF success
      THEN [proxy |-> proxy, has_result |-> TRUE,
            expiry_time |-> now + PmCacheTtl, failures |-> 0]
      ELSE [proxy |-> 0, has_result |-> TRUE,
            expiry_time |-> IF cache.failures + 1 >= max_failures
                            THEN 0 ELSE now + PmFailureTtl,
            failures |-> cache.failures + 1]

NoUpdate == [called |-> FALSE, success |-> FALSE, proxy |-> 0, now |-> 0,
             failures_before |-> 0]

CuInit ==
    /\ cu_present = FALSE
    /\ cu_cache = CacheOrNew(FALSE, <<>>)
    /\ cu_max_failures \in 1..MaxMaxFailures
    /\ cu_now = 1
    /\ cu_last = NoUpdate

CuIdle ==
    /\ cu_present = FALSE
    /\ cu_cache = CacheOrNew(FALSE, <<>>)
    /\ cu_max_failures = 1
    /\ cu_now = 1
    /\ cu_last = NoUpdate

\* one call of _update_proxy_cache, under self._cache_lock
UpdateProxyCacheCall(proxy, success) ==
    LET cache == CacheOrNew(cu_present, cu_cache) IN
    /\ ~success => cache.failures < MaxRunOfFailures
    /\ cu_cache' = UpdateProxyCache(cache, proxy, success, cu_max_failures,
                                    cu_now)
    /\ cu_present' = TRUE
    /\ cu_last' = [called |-> TRUE, success |-> success, proxy |-> proxy,
                   now |-> cu_now, failures_before |-> cache.failures]
    /\ UNCHANGED <<cu_max_failures, cu_now>>

\* time passes
CuTick ==
    /\ cu_now < MaxUpdateTime
    /\ cu_now' = cu_now + 1
    /\ UNCHANGED <<cu_present, cu_cache, cu_max_failures, cu_last>>


(***************************************************************************)
(* IPDetector alone: update_api_state followed call by call, with the      *)
(* length of each API's current run of failures                            *)
(***************************************************************************)
NoDetUpdate == [called |-> FALSE, api |-> "", success |-> FALSE, run |-> 0,
                cooled |-> FALSE]

DetInit ==
    /\ det_run = [a \in ApiSet |-> 0]
    /\ det_last = NoDetUpdate

DetIdle == DetInit

\* update_api_state(a, success) and what an observer of the call records:
\* whether it was a failure, how many failures of a have now come in a row,
\* and whether the call started a cooldown of a
UpdateApiStateObserved(a) ==
    /\ UpdateApiState(a)
    /\ LET failed == api_states'[a].failure_count # api_states[a].failure_count
           run == IF failed THEN det_run[a] + 1 ELSE 0
       IN /\ det_run' = [det_run EXCEPT ![a] = run]
          /\ det_last' = [called |-> TRUE, api |-> a, success |-> ~failed,
                          run |-> run,
                          cooled |-> api_states'[a].blocked_until
                                        # api_states[a].blocked_until]


(***************************************************************************)
(* ProxyChecker._check_connection_async: one probe, attempt by attempt,    *)
(* on the endpoint tracking of ProxyChecker and IPDetector.  The probe is  *)
(* the only coroutine here; the code between two awaits is one action,     *)
(* except that the choice of the next URL after a rate-limit answer is a   *)
(* step of its own (SwitchUrl), which nothing can precede.                 *)
(***************************************************************************)
\* the test_url argument: None (chosen by the checker) or a URL of the caller
TestUrlArgs == {"auto"} \cup UrlSet \cup ApiSet

\* RATE_LIMIT_STATUS_CODES
RateLimitStatusCodes == {403, 429, 503}

\* what session.get comes to in one attempt:
\*   json_match     200, JSON body with the target country
\*   json_mismatch  200, JSON body with another country
\*   json_no_country 200, JSON body from which no country code is extracted
\*   not_json       200, response.json() raises
\*   rate_limited   a status of RATE_LIMIT_STATUS_CODES
\*   http_error     another status
\*   timeout        asyncio.TimeoutError
\*   proxy_error    aiohttp.ClientProxyConnectionError
ResponseKinds == {"json_match", "json_mismatch", "json_no_country", "not_json",
                  "rate_limited", "http_error", "timeout", "proxy_error"}

\* the result dictionary at the start of a probe
NewResult == [success |-> FALSE, error |-> "None", country_code |-> "None",
              country_match |-> "None"]

\* the IP-region block (lines 648-690) on a parsed body: it runs when
\* ignore_ip_check is false and test_url is the url of a configured API
RegionChecked(cfg, url) == ~cfg.ignore_ip_check /\ url \in ApiSet

\* the result of an attempt answered with status 200
ResultOf200(cfg, url, kind, result) ==
    IF kind = "not_json" \/ ~RegionChecked(cfg, url)
      THEN [result EXCEPT !.success = TRUE]
    ELSE IF kind = "json_match"
      THEN [result EXCEPT !.success = TRUE, !.country_code = "target",
                          !.country_match = "True"]
    ELSE IF kind = "json_mismatch"
      THEN [result EXCEPT !.success = FALSE, !.country_code = "other",
                          !.country_match = "False", !.error = "mismatch"]
    ELSE [result EXCEPT !.success = FALSE, !.error = "no_country"]

\* whether an endpoint is in cooldown at time now
InCooldown(ep) ==
    IF ep \in ApiSet THEN ep_now < api_states[ep].blocked_until
    ELSE ep \in blocked_urls /\ ep_now < url_cooldown[ep]

PrConfigs == [ignore_ip_check : BOOLEAN, max_retries : 0..MaxCheckRetries,
              proxy_mode : BOOLEAN]

PrInit ==
    /\ pr_cfg \in PrConfigs
    /\ pr_pc = "idle"
    /\ pr_url = ""
    /\ pr_attempt = 0
    /\ pr_result = NewResult
    /\ pr_limited = ""
    /\ pr_probes = 0

PrIdle ==
    /\ pr_cfg = [ignore_ip_check |-> TRUE, max_retries |-> 0, proxy_mode |-> TRUE]
    /\ pr_pc = "idle"
    /\ pr_url = ""
    /\ pr_attempt = 0
    /\ pr_result = NewResult
    /\ pr_limited = ""
    /\ pr_probes = 0

\* the choice of a URL by the checker: at the start of a probe
\* (lines 536-545) and in _get_next_test_url
ChooseUrl ==
    /\ IF ~pr_cfg.ignore_ip_check
         THEN GetNextAvailableApi ELSE GetNextAvailableUrl
    /\ pr_url' = ep_last'.ep

\* _check_connection_async(test_url, proxy_url) up to its first request
ProbeStart(arg) ==
    /\ pr_pc = "idle"
    /\ pr_probes < MaxProbes
    /\ pr_probes' = pr_probes + 1
    /\ IF arg = "auto" THEN ChooseUrl
       ELSE /\ pr_url' = arg
            /\ UNCHANGED epVars
    /\ pr_pc' = "request"
    /\ pr_attempt' = 0
    /\ pr_result' = NewResult
    /\ pr_limited' = ""
    /\ UNCHANGED pr_cfg

\* an attempt answered with status 200 (lines 591-696)
Answer200(kind) ==
    /\ pr_pc = "request"
    /\ kind \in {"json_match", "json_mismatch", "json_no_country", "not_json"}
    /\ pr_result' = ResultOf200(pr_cfg, pr_url, kind, pr_result)
    /\ pr_pc' = "done"
    /\ pr_limited' = ""
    /\ UNCHANGED <<pr_cfg, pr_url, pr_attempt, pr_probes, epVars>>

\* an attempt answered with a status of RATE_LIMIT_STATUS_CODES
\* (lines 563-589): the endpoint is charged, and the probe switches URL when
\* attempt < max_retries
AnswerRateLimited(status_code) ==
    /\ pr_pc = "request"
    /\ IF pr_url \in ApiSet
         THEN UpdateApiState(pr_url) /\ api_states' # api_states
         ELSE IF pr_cfg.ignore_ip_check
                THEN MarkUrlBlocked(pr_url, status_code)
                ELSE UNCHANGED epVars
    /\ IF pr_attempt < pr_cfg.max_retries
         THEN /\ pr_pc' = "switch"
              /\ pr_limited' = pr_url
              /\ UNCHANGED pr_result
         ELSE /\ pr_pc' = "done"
              /\ pr_limited' = ""
              /\ pr_result' = [pr_result EXCEPT !.error = "http"]
    /\ UNCHANGED <<pr_cfg, pr_url, pr_attempt, pr_probes>>

\* new_test_url = self._get_next_test_url(); test_url = new_test_url; the
\* sleep of one second and the next pass of the loop
SwitchUrl ==
    /\ pr_pc = "switch"
    /\ ChooseUrl
    /\ pr_pc' = "request"
    /\ pr_attempt' = pr_attempt + 1
    /\ UNCHANGED <<pr_cfg, pr_result, pr_limited, pr_probes>>

\* an attempt answered with another status: returns at once
AnswerHttpError ==
    /\ pr_pc = "request"
    /\ pr_result' = [pr_result EXCEPT !.error = "http"]
    /\ pr_pc' = "done"
    /\ pr_limited' = ""
    /\ UNCHANGED <<pr_cfg, pr_url, pr_attempt, pr_probes, epVars>>

\* an attempt that raised: the error is written into the result; a proxy
\* error in proxy mode returns at once, otherwise the loop goes on to the
\* next attempt on the same URL, or ends after the last one (lines 697-740)
AttemptRaises(kind) ==
    /\ pr_pc = "request"
    /\ kind \in {"timeout", "proxy_error"}
    /\ pr_result' = [pr_result EXCEPT !.error = kind]
    /\ pr_limited' = ""
    /\ IF (kind = "proxy_error" /\ pr_cfg.proxy_mode)
            \/ pr_attempt >= pr_cfg.max_retries
         THEN pr_pc' = "done" /\ UNCHANGED pr_attempt
         ELSE pr_pc' = "request" /\ pr_attempt' = pr_attempt + 1
    /\ UNCHANGED <<pr_cfg, pr_url, pr_probes, epVars>>

\* the caller takes (success, result)
ProbeReturn ==
    /\ pr_pc = "done"
    /\ pr_pc' = "idle"
    /\ pr_url' = ""
    /\ pr_attempt' = 0
    /\ pr_result' = NewResult
    /\ pr_limited' = ""
    /\ UNCHANGED <<pr_cfg, pr_probes, epVars>>

\* time passes between two probes
ProbeTick ==
    /\ pr_pc = "idle"
    /\ EpTick
    /\ UNCHANGED prVars


(***************************************************************************)
(* ProxyChecker.batch_check_async: the loop over the batches of one call   *)
(***************************************************************************)
BbIds == 1..MaxBatchProxies

\* batch_size = min(len(proxies), max(5, min(20, self.max_workers)))
BatchSize(n, max_workers) == Min(n, Max(5, Min(20, max_workers)))

\* the indices (from 1) of batch_proxies = proxies[i:i+batch_size], where
\* start = i + 1
BatchProxiesAt(cfg, start) ==
    {k \in 1..cfg.n : start <= k /\ k < start + BatchSize(cfg.n, cfg.max_workers)}

\* the tasks inside "async with semaphore"
BbRunning == {k \in BbIds : bb_pc[k] = "running"}

\* a gather that returns as soon as one task of the batch has finished
GatherReturnsEarly(batch) == \E k \in batch : bb_pc[k] = "finished"

\* await asyncio.gather(*tasks, return_exceptions=True) returns
GatherReturns(batch) == \A k \in batch : bb_pc[k] = "finished"

BbConfigs == [n : 1..MaxBatchProxies, max_workers : 1..MaxWorkers]

BbInit ==
    /\ bb_cfg \in BbConfigs
    /\ bb_start = 1
    /\ bb_phase = "loop"
    /\ bb_pc = [k \in BbIds |-> "none"]

BbIdle ==
    /\ bb_cfg = [n |-> 1, max_workers |-> 1]
    /\ bb_start = 1
    /\ bb_phase = "loop"
    /\ bb_pc = [k \in BbIds |-> "none"]

\* one pass of "for i in range(0, len(proxies), batch_size)" up to the
\* gather: the semaphore is made and a task is created for every proxy of
\* the batch; after the last batch the call returns
BatchStart ==
    /\ bb_phase = "loop"
    /\ IF bb_start > bb_cfg.n
         THEN /\ bb_phase' = "returned"
              /\ UNCHANGED bb_pc
         ELSE /\ bb_phase' = "gather"
              /\ bb_pc' = [k \in BbIds |->
                             IF k \in BatchProxiesAt(bb_cfg, bb_start)
                             THEN "queued" ELSE bb_pc[k]]
    /\ UNCHANGED <<bb_cfg, bb_start>>

\* _check_with_semaphore: async with semaphore, on the semaphore of the
\* task's batch
BbEnter(k) ==
    /\ bb_pc[k] = "queued"
    /\ LET batch == BatchProxiesAt(bb_cfg, bb_start)
       IN Cardinality(BbRunning \cap batch)
            < SemaphoreSize([max_workers |-> bb_cfg.max_workers,
                             n |-> Cardinality(batch)])
    /\ bb_pc' = [bb_pc EXCEPT ![k] = "running"]
    /\ UNCHANGED <<bb_cfg, bb_start, bb_phase>>

\* the task returns its result or raises: the semaphore is released
BbFinish(k) ==
    /\ bb_pc[k] = "running"
    /\ bb_pc' = [bb_pc EXCEPT ![k] = "finished"]
    /\ UNCHANGED <<bb_cfg, bb_start, bb_phase>>

\* gather returns, the results are counted, and the call sleeps before the
\* next pass of the loop
BatchGathered ==
    /\ bb_phase = "gather"
    /\ GatherReturns(BatchProxiesAt(bb_cfg, bb_start))
    /\ bb_phase' = "loop"
    /\ bb_start' = bb_start + BatchSize(bb_cfg.n, bb_cfg.max_workers)
    /\ UNCHANGED <<bb_cfg, bb_pc>>


(***************************************************************************)
(* FixedProxySource: the cached check of the fixed proxy                   *)
(***************************************************************************)
\* what proxy_checker.check_proxy does for the caller: it returns
\* (True, result), returns (False, result), or raises
FixedProbeOutcomes == {"success", "failure", "raises"}

\* a source that never finds a cached check
NeverCachedCheck == FALSE

\* not (self._cached_proxy is None or self._cached_check_result is None)
HasCachedCheck == fs_cached_proxy /= "None" /\ fs_cached_check_result /= "None"

FsInit ==
    /\ fs_configured \in BOOLEAN
    /\ fs_cached_proxy = "None"
    /\ fs_cached_check_result = "None"
    /\ fs_probes = 0
    /\ fs_call = [op |-> "none", count |-> 0, configured |-> FALSE,
                  had_cache |-> FALSE, probed |-> FALSE, returned |-> 0]

FsIdle ==
    /\ fs_configured = FALSE
    /\ fs_cached_proxy = "None"
    /\ fs_cached_check_result = "None"
    /\ fs_probes = 0
    /\ fs_call = [op |-> "none", count |-> 0, configured |-> FALSE,
                  had_cache |-> FALSE, probed |-> FALSE, returned |-> 0]

\* the settings file is saved with or without a host and port for the
\* fixed proxy; _get_fixed_proxy_config reads it on every call
SaveFixedSettings(configured) ==
    /\ fs_configured' = configured
    /\ UNCHANGED <<fs_cached_proxy, fs_cached_check_result, fs_probes, fs_call>>

\* check_availability(): probes the configured proxy and stores the proxy
\* and the result, whether the probe succeeded or not; a probe that raises
\* stores nothing
CheckAvailability(outcome) ==
    /\ fs_configured => fs_probes < MaxFixedProbes
    /\ fs_call' = [op |-> "check_availability", count |-> 0,
                   configured |-> fs_configured,
                   had_cache |-> fs_cached_check_result /= "None",
                   probed |-> fs_configured, returned |-> 0]
    /\ IF ~fs_configured
         THEN UNCHANGED <<fs_cached_proxy, fs_cached_check_result, fs_probes>>
         ELSE /\ fs_probes' = fs_probes + 1
              /\ IF outcome = "raises"
                   THEN UNCHANGED <<fs_cached_proxy, fs_cached_check_result>>
                   ELSE /\ fs_cached_proxy' = "proxy"
                        /\ fs_cached_check_result' = outcome
    /\ UNCHANGED fs_configured

\* get_proxies(count): [] when nothing is configured; with no cached check
\* it probes the proxy, returns [] unless the probe succeeded, and stores
\* nothing; otherwise it returns [proxy]
FixedGetProxies(count, outcome) ==
    LET probes == fs_configured /\ ~HasCachedCheck
    IN /\ probes => fs_probes < MaxFixedProbes
       /\ fs_probes' = IF probes THEN fs_probes + 1 ELSE fs_probes
       /\ fs_call' = [op |-> "get_proxies", count |-> count,
                      configured |-> fs_configured,
                      had_cache |-> fs_cached_check_result /= "None",
                      probed |-> probes,
                      returned |-> IF ~fs_configured THEN 0
                                   ELSE IF probes /\ outcome /= "success" THEN 0
                                   ELSE 1]
       /\ UNCHANGED <<fs_configured, fs_cached_proxy, fs_cached_check_result>>


(***************************************************************************)
(* CircuitBreaker after a recovery: what has been recorded since the last  *)
(* HALF_OPEN -> CLOSED transition                                          *)
(***************************************************************************)
\* windows one longer than those of CbConfigs, so that a window can hold
\* the failures that opened the breaker, the trial and a later outcome
RecoveryConfigs ==
    [failure_type : FailureTypes,
     failure_threshold : 1..MaxThreshold,
     reset_timeout : 1..MaxResetTimeout,
     window_size : 1..(MaxWindow + 1),
     failure_rate_percent : {FailureRatePercent},
     half_open_max_trials : 1..MaxTrials]

NoRecovery == [active |-> FALSE, window |-> <<>>, run |-> 0]

\* the part of the breaker's record that was written at or after the
\* recovery: the entries of _results_window appended since (the trial's
\* success is the first) and the failures in a row since
SinceRecovery(since, before, after, cfg, outcome) ==
    IF before.state = "HALF_OPEN" /\ after.state = "CLOSED"
      THEN [active |-> TRUE, window |-> PushResult(cfg, <<>>, TRUE), run |-> 0]
    ELSE IF ~since.active \/ after.state # "CLOSED"
      THEN NoRecovery
    ELSE [active |-> TRUE,
          window |-> PushResult(cfg, since.window, outcome),
          run |-> IF outcome THEN 0
                  ELSE IF cfg.failure_type = "CONSECUTIVE" THEN since.run + 1
                  ELSE since.run]

\* the trigger policy applied to a window and a run of failures
PolicyTrips(cfg, window, run) ==
    LET b == [NewBreaker(0) EXCEPT !.results_window = window,
                                   !.consecutive_failures = run]
    IN IF cfg.failure_type = "CONSECUTIVE" THEN ConsecutiveTrips(b, cfg)
       ELSE IF cfg.failure_type = "PERCENTAGE" THEN PercentageTrips(b, cfg)
       ELSE TotalTrips(b, cfg)

RvInit ==
    /\ cb_cfg \in RecoveryConfigs
    /\ cb_now = 0
    /\ cb = NewBreaker(0)
    /\ ex_pc = [c \in CbCallers |-> "idle"]
    /\ ex_info = [c \in CbCallers |-> NoExec]
    /\ cb_run = 0
    /\ cb_last = NoOp
    /\ cb_since = NoRecovery

RvIdle == cb_since = NoRecovery

\* _on_success or _on_failure has run
OutcomeObserved(outcome) ==
    cb_since' = SinceRecovery(cb_since, cb, cb', cb_cfg, outcome)

(***************************************************************************)
(* Specifications                                                          *)
(***************************************************************************)
vars == <<poolVars, cbVars, pmVars, epVars, bcVars, geoVars, monVars, stVars,
         apiVars, sdVars, asVars, impVars, rcVars, cuVars,
    detVars,
    prVars,
    bbVars,
    fsVars,
    rvVars>>

notPool == <<cbVars, pmVars, epVars, bcVars, geoVars, monVars, stVars, apiVars,
    sdVars, asVars, impVars, rcVars, cuVars,
    detVars,
    prVars,
    bbVars,
    fsVars,
    rvVars>>

notCb == <<poolVars, pmVars, epVars, bcVars, geoVars, monVars, stVars, apiVars,
    sdVars, asVars, impVars, rcVars, cuVars,
    detVars,
    prVars,
    bbVars,
    fsVars,
    rvVars>>

notPm == <<poolVars, cbVars, epVars, bcVars, geoVars, monVars, stVars, apiVars,
    sdVars, asVars, impVars, rcVars, cuVars,
    detVars,
    prVars,
    bbVars,
    fsVars,
    rvVars>>

notEp == <<poolVars, cbVars, pmVars, bcVars, geoVars, monVars, stVars, apiVars,
    sdVars, asVars, impVars, rcVars, cuVars,
    detVars,
    prVars,
    bbVars,
    fsVars,
    rvVars>>

notBc == <<poolVars, cbVars, pmVars, epVars, geoVars, monVars, stVars, apiVars,
    sdVars, asVars, impVars, rcVars, cuVars,
    detVars,
    prVars,
    bbVars,
    fsVars,
    rvVars>>

notGeo == <<poolVars, cbVars, pmVars, epVars, bcVars, monVars, stVars, apiVars,
    sdVars, asVars, impVars, rcVars, cuVars,
    detVars,
    prVars,
    bbVars,
    fsVars,
    rvVars>>

notMon == <<poolVars, cbVars, pmVars, epVars, bcVars, geoVars, stVars, apiVars,
    sdVars, asVars, impVars, rcVars, cuVars,
    detVars,
    prVars,
    bbVars,
    fsVars,
    rvVars>>

notSt == <<poolVars, cbVars, pmVars, epVars, bcVars, geoVars, monVars, apiVars,
    sdVars, asVars, impVars, rcVars, cuVars,
    detVars,
    prVars,
    bbVars,
    fsVars,
    rvVars>>

PoolNext ==
    \E c \in Callers :
        \/ GetProxyLock(c) /\ UNCHANGED notPool
        \/ GetProxySelect(c) /\ UNCHANGED notPool
        \/ GetProxyUpdate(c) /\ UNCHANGED notPool

InitPool == PoolInit /\ CbIdle /\ PmIdle /\ EpIdle /\ BcIdle /\ GeoIdle /\ MonIdle /\ StoreIdle /\ ApiIdle
    /\ SdIdle /\ AsInit /\ ImpIdle /\ RcIdle /\ CuIdle /\ DetIdle /\ PrIdle /\ BbIdle /\ FsIdle /\ RvIdle

SpecPool == InitPool /\ [][PoolNext]_vars

CbNext ==
    \/ \E c \in CbCallers :
        \/ ExecuteAdmitted(c) /\ UNCHANGED notCb
        \/ ExecuteRejected(c) /\ UNCHANGED notCb
        \/ ExecuteSucceeds(c) /\ UNCHANGED notCb
        \/ ExecuteFails(c) /\ UNCHANGED notCb
    \/ ReportSuccess /\ UNCHANGED notCb
    \/ ReportFailure /\ UNCHANGED notCb
    \/ Reset /\ UNCHANGED notCb
    \/ CbTick /\ UNCHANGED notCb

InitBreaker == CbInit /\ PoolIdle /\ PmIdle /\ EpIdle /\ BcIdle /\ GeoIdle /\ MonIdle /\ StoreIdle /\ ApiIdle
    /\ SdIdle /\ AsInit /\ ImpIdle /\ RcIdle /\ CuIdle /\ DetIdle /\ PrIdle /\ BbIdle /\ FsIdle /\ RvIdle

SpecBreaker == InitBreaker /\ [][CbNext]_vars

PmNext ==
    \/ \E t \in PmTasks :
        \/ PmGetProxy(t) /\ UNCHANGED notPm
        \/ PmRetry(t) /\ UNCHANGED notPm
        \/ PmSourceFetch(t) /\ UNCHANGED notPm
        \/ PmProbeDone(t) /\ UNCHANGED notPm
        \/ PmReturn(t) /\ UNCHANGED notPm
        \/ PmRefresh(t) /\ UNCHANGED notPm
    \/ PmReportFailure /\ UNCHANGED notPm
    \/ PmTick /\ UNCHANGED notPm

InitCache == PmInit /\ PoolIdle /\ CbIdle /\ EpIdle /\ BcIdle /\ GeoIdle /\ MonIdle /\ StoreIdle /\ ApiIdle
    /\ SdIdle /\ AsInit /\ ImpIdle /\ RcIdle /\ CuIdle /\ DetIdle /\ PrIdle /\ BbIdle /\ FsIdle /\ RvIdle

SpecCache == InitCache /\ [][PmNext]_vars

EpNext ==
    \/ GetNextAvailableUrl /\ UNCHANGED notEp
    \/ \E u \in UrlSet, code \in MarkStatusCodes :
          MarkUrlBlocked(u, code) /\ UNCHANGED notEp
    \/ UpdateTestUrls /\ UNCHANGED notEp
    \/ CreateUrlGroups /\ UNCHANGED notEp
    \/ GetNextAvailableApi /\ UNCHANGED notEp
    \/ \E a \in ApiSet : UpdateApiState(a) /\ UNCHANGED notEp
    \/ EpTick /\ UNCHANGED notEp

InitEndpoints == EpInit /\ PoolIdle /\ CbIdle /\ PmIdle /\ BcIdle /\ GeoIdle /\ MonIdle /\ StoreIdle /\ ApiIdle
    /\ SdIdle /\ AsInit /\ ImpIdle /\ RcIdle /\ CuIdle /\ DetIdle /\ PrIdle /\ BbIdle /\ FsIdle /\ RvIdle

SpecEndpoints == InitEndpoints /\ [][EpNext]_vars

BcNext ==
    \/ \E i \in BatchIds :
        \/ CheckWithSemaphoreEnter(i) /\ UNCHANGED notBc
        \/ CheckWithSemaphoreRaises(i) /\ UNCHANGED notBc
        \/ ProxyFormatInvalid(i) /\ UNCHANGED notBc
        \/ CheckConnectionAttempt(i) /\ UNCHANGED notBc
    \/ GatherResults /\ UNCHANGED notBc

InitBatch == BcInit /\ PoolIdle /\ CbIdle /\ PmIdle /\ EpIdle /\ GeoIdle /\ MonIdle /\ StoreIdle /\ ApiIdle
    /\ SdIdle /\ AsInit /\ ImpIdle /\ RcIdle /\ CuIdle /\ DetIdle /\ PrIdle /\ BbIdle /\ FsIdle /\ RvIdle

SpecBatch == InitBatch /\ [][BcNext]_vars

GeoNext == MatchCountryCodeCall /\ UNCHANGED notGeo

InitGeo == GeoInit /\ PoolIdle /\ CbIdle /\ PmIdle /\ EpIdle /\ BcIdle /\ MonIdle /\ StoreIdle /\ ApiIdle
    /\ SdIdle /\ AsInit /\ ImpIdle /\ RcIdle /\ CuIdle /\ DetIdle /\ PrIdle /\ BbIdle /\ FsIdle /\ RvIdle

SpecGeo == InitGeo /\ [][GeoNext]_vars

MonNext ==
    \/ (\E total \in TotalTasksInputs, source \in ProxySourceInputs :
            MonitorPoolForTasks(total, source)) /\ UNCHANGED notMon
    \/ (\E t \in MonitorTaskIds : MonitorPoolAsyncCycle(t)) /\ UNCHANGED notMon
    \/ (\E t \in MonitorTaskIds : CheckAndReplenishReturns(t)) /\ UNCHANGED notMon
    \/ (\E t \in MonitorTaskIds : MonitorTaskCancelled(t)) /\ UNCHANGED notMon
    \/ StopMonitoring /\ UNCHANGED notMon
    \/ StopWaitReturns /\ UNCHANGED notMon
    \/ StopWaitTimesOut /\ UNCHANGED notMon
    \/ StopCancelsMonitorTask /\ UNCHANGED notMon
    \/ StopCancelReturns /\ UNCHANGED notMon

InitMonitor == MonInit /\ PoolIdle /\ CbIdle /\ PmIdle /\ EpIdle /\ BcIdle /\ GeoIdle /\ StoreIdle /\ ApiIdle
    /\ SdIdle /\ AsInit /\ ImpIdle /\ RcIdle /\ CuIdle /\ DetIdle /\ PrIdle /\ BbIdle /\ FsIdle /\ RvIdle

SpecMonitor == InitMonitor /\ [][MonNext]_vars

StoreNext ==
    \/ (\E list \in AddLists, err \in StoreErrors, bad \in 0..2 :
            BatchAddProxies(list, err, bad)) /\ UNCHANGED notSt
    \/ (\E c \in TpCallers, err \in StoreErrors : TpGetProxySelect(c, err))
            /\ UNCHANGED notSt
    \/ (\E c \in TpCallers, err \in StoreErrors : TpGetProxyUpdate(c, err))
            /\ UNCHANGED notSt
    \/ (\E c \in TpCallers, outcome \in {"ok", "proxy_error", "rate_limited"} :
            TpCheckProxy(c, outcome)) /\ UNCHANGED notSt
    \/ (\E c \in TpCallers, err \in StoreErrors : TpMarkFailed(c, err))
            /\ UNCHANGED notSt
    \/ (\E c \in TpCallers : TpReturn(c)) /\ UNCHANGED notSt
    \/ (\E id \in 1..MaxStoreRows, err \in StoreErrors : MarkTaskProxyUsed(id, err))
            /\ UNCHANGED notSt

InitStore ==
    StoreInit /\ PoolIdle /\ CbIdle /\ PmIdle /\ EpIdle /\ BcIdle /\ GeoIdle /\ MonIdle
        /\ ApiIdle /\ SdIdle /\ AsInit /\ ImpIdle /\ RcIdle /\ CuIdle /\ DetIdle /\ PrIdle /\ BbIdle /\ FsIdle /\ RvIdle

SpecStore == InitStore /\ [][StoreNext]_vars

\* the store with mark_proxy_status open to every caller
StoreCallsNext ==
    \/ StoreNext
    \/ (\E id \in 1..MaxStoreRows, status \in StatusArgs, err \in StoreErrors :
            MarkProxyStatus(id, status, err)) /\ UNCHANGED notSt

SpecStoreCalls == InitStore /\ [][StoreCallsNext]_vars

notApi == <<poolVars, cbVars, pmVars, epVars, bcVars, geoVars, monVars, stVars,
    sdVars, asVars, impVars, rcVars, cuVars,
    detVars,
    prVars,
    bbVars,
    fsVars,
    rvVars>>

ApiNext ==
    \/ AddListener /\ UNCHANGED notApi
    \/ AddAsyncListener /\ UNCHANGED notApi
    \/ (\E c \in ApiCallers : ExecuteCheck(c)) /\ UNCHANGED notApi
    \/ (\E c \in ApiCallers, r \in Raising(listeners, async_listeners) :
            ExecuteToHalfOpen(c, r)) /\ UNCHANGED notApi
    \/ (\E c \in ApiCallers, r \in Raising(listeners, async_listeners) :
            ExecuteAsyncToHalfOpen(c, r)) /\ UNCHANGED notApi
    \/ (\E c \in ApiCallers : ExecuteAsyncFirstTrial(c)) /\ UNCHANGED notApi
    \/ (\E c \in ApiCallers : ExecuteTrial(c)) /\ UNCHANGED notApi
    \/ (\E c \in ApiCallers, ok \in BOOLEAN,
            r \in Raising(listeners, async_listeners) :
            ExecuteReturns(c, ok, r)) /\ UNCHANGED notApi
    \/ (\E api \in {"sync", "async"}, ok \in BOOLEAN,
            r \in Raising(listeners, async_listeners) :
            Report(api, ok, r)) /\ UNCHANGED notApi
    \/ (\E api \in {"sync", "async"},
            r \in Raising(listeners, async_listeners) :
            ApiReset(api, r)) /\ UNCHANGED notApi
    \/ ApiTick /\ UNCHANGED notApi

InitBreakerApi ==
    ApiInit /\ PoolIdle /\ CbIdle /\ PmIdle /\ EpIdle /\ BcIdle /\ GeoIdle /\ MonIdle
        /\ StoreIdle /\ SdIdle /\ AsInit /\ ImpIdle /\ RcIdle /\ CuIdle /\ DetIdle /\ PrIdle /\ BbIdle /\ FsIdle /\ RvIdle

SpecBreakerApi == InitBreakerApi /\ [][ApiNext]_vars

notSd == <<poolVars, cbVars, pmVars, epVars, bcVars, geoVars, monVars, stVars,
          apiVars, asVars, impVars, rcVars, cuVars,
    detVars,
    prVars,
    bbVars,
    fsVars,
    rvVars>>

SdNext ==
    \/ (\E arg \in SourceArgs, expired \in BOOLEAN, fixed_list \in BOOLEAN,
            outcome \in {"ok", "fail"} :
            GetProxyCall(arg, expired, fixed_list, outcome)) /\ UNCHANGED notSd
    \/ (\E arg \in SourceArgs, list \in SUBSET BatchProxies,
            save_to_task_pool \in BOOLEAN :
            GetProxiesBatchCall(arg, list, save_to_task_pool))
            /\ UNCHANGED notSd

InitSources ==
    SdInit /\ PoolIdle /\ CbIdle /\ PmIdle /\ EpIdle /\ BcIdle /\ GeoIdle /\ MonIdle
        /\ StoreIdle /\ ApiIdle /\ AsInit /\ ImpIdle /\ RcIdle /\ CuIdle /\ DetIdle /\ PrIdle /\ BbIdle /\ FsIdle /\ RvIdle

SpecSources == InitSources /\ [][SdNext]_vars

notAs == <<poolVars, cbVars, pmVars, epVars, bcVars, geoVars, monVars, stVars,
          apiVars, sdVars, impVars, rcVars, cuVars,
    detVars,
    prVars,
    bbVars,
    fsVars,
    rvVars>>

ApiLoopStep ==
    \/ (\E outcome \in ApiOutcomes, fresh \in 0..MaxFresh :
            ApiLoopPass(outcome, fresh)) /\ UNCHANGED notAs
    \/ ApiReturn /\ UNCHANGED notAs

AsNext ==
    \/ (\E count \in ApiCounts, configured \in BOOLEAN :
            ApiGetProxies(count, configured)) /\ UNCHANGED notAs
    \/ ApiLoopStep

InitApiSource ==
    AsInit /\ PoolIdle /\ CbIdle /\ PmIdle /\ EpIdle /\ BcIdle /\ GeoIdle /\ MonIdle
        /\ StoreIdle /\ ApiIdle /\ SdIdle /\ ImpIdle /\ RcIdle /\ CuIdle /\ DetIdle /\ PrIdle /\ BbIdle /\ FsIdle /\ RvIdle

\* get_proxies runs in one thread from call to return: its loop keeps
\* taking steps.
SpecApiSource == InitApiSource /\ [][AsNext]_vars /\ WF_vars(ApiLoopStep)

notImp == <<poolVars, cbVars, pmVars, epVars, bcVars, geoVars, monVars, stVars,
           apiVars, sdVars, asVars, rcVars, cuVars,
    detVars,
    prVars,
    bbVars,
    fsVars,
    rvVars>>

ImpNext ==
    \/ (\E c \in ImpCallers, count \in 1..MaxImported : ImpGetProxies(c, count))
            /\ UNCHANGED notImp
    \/ (\E c \in ImpCallers : ImpMarkUsed(c)) /\ UNCHANGED notImp
    \/ (\E c \in ImpCallers : ImpReturn(c)) /\ UNCHANGED notImp

InitImport ==
    ImpInit /\ PoolIdle /\ CbIdle /\ PmIdle /\ EpIdle /\ BcIdle /\ GeoIdle /\ MonIdle
        /\ StoreIdle /\ ApiIdle /\ SdIdle /\ AsInit /\ RcIdle /\ CuIdle /\ DetIdle /\ PrIdle /\ BbIdle /\ FsIdle /\ RvIdle

SpecImport == InitImport /\ [][ImpNext]_vars

notRc == <<poolVars, cbVars, pmVars, epVars, bcVars, geoVars, monVars, stVars,
          apiVars, sdVars, asVars, impVars, cuVars,
    detVars,
    prVars,
    bbVars,
    fsVars,
    rvVars>>

RcNext ==
    \/ (\E stats_error \in BOOLEAN : CheckAndReplenish(stats_error))
            /\ UNCHANGED notRc
    \/ SourceTakes /\ UNCHANGED notRc
    \/ SourceReturns /\ UNCHANGED notRc
    \/ SaveReturns /\ UNCHANGED notRc
    \/ ForcedCancel /\ UNCHANGED notRc

InitReplenish ==
    RcInit /\ PoolIdle /\ CbIdle /\ PmIdle /\ EpIdle /\ BcIdle /\ GeoIdle /\ MonIdle
        /\ StoreIdle /\ ApiIdle /\ SdIdle /\ AsInit /\ ImpIdle /\ CuIdle /\ DetIdle /\ PrIdle /\ BbIdle /\ FsIdle /\ RvIdle

SpecReplenish == InitReplenish /\ [][RcNext]_vars

notCu == <<poolVars, cbVars, pmVars, epVars, bcVars, geoVars, monVars, stVars,
          apiVars, sdVars, asVars, impVars, rcVars,
    detVars,
    prVars,
    bbVars,
    fsVars,
    rvVars>>

CuNext ==
    \/ (\E proxy \in 1..MaxRecords + 1, success \in BOOLEAN :
            UpdateProxyCacheCall(IF success THEN proxy ELSE 0, success))
            /\ UNCHANGED notCu
    \/ CuTick /\ UNCHANGED notCu

InitCacheUpdate ==
    CuInit /\ PoolIdle /\ CbIdle /\ PmIdle /\ EpIdle /\ BcIdle /\ GeoIdle /\ MonIdle
        /\ StoreIdle /\ ApiIdle /\ SdIdle /\ AsInit /\ ImpIdle /\ RcIdle /\ DetIdle /\ PrIdle /\ BbIdle /\ FsIdle /\ RvIdle

SpecCacheUpdate == InitCacheUpdate /\ [][CuNext]_vars

notDet == <<poolVars, cbVars, pmVars, epVars, bcVars, geoVars,
    monVars, stVars, apiVars, sdVars, asVars, impVars,
    rcVars, cuVars,
    prVars,
    bbVars,
    fsVars,
    rvVars>>

notEpDet == <<poolVars, cbVars, pmVars, bcVars, geoVars, monVars,
    stVars, apiVars, sdVars, asVars, impVars, rcVars,
    cuVars,
    prVars,
    bbVars,
    fsVars,
    rvVars>>

DetNext ==
    \/ GetNextAvailableApi /\ UNCHANGED notEp
    \/ (\E a \in ApiSet : UpdateApiStateObserved(a)) /\ UNCHANGED notEpDet
    \/ EpTick /\ UNCHANGED notEp

InitDetector ==
    DetInit
    /\ PoolIdle /\ CbIdle /\ PmIdle /\ EpIdle /\ BcIdle /\ GeoIdle
    /\ MonIdle /\ StoreIdle /\ ApiIdle /\ SdIdle /\ AsInit /\ ImpIdle
    /\ RcIdle /\ CuIdle /\ PrIdle /\ BbIdle /\ FsIdle /\ RvIdle

SpecDetector == InitDetector /\ [][DetNext]_vars

notPr == <<poolVars, cbVars, pmVars, epVars, bcVars, geoVars,
    monVars, stVars, apiVars, sdVars, asVars, impVars,
    rcVars, cuVars, detVars,
    bbVars,
    fsVars,
    rvVars>>

notEpPr == <<poolVars, cbVars, pmVars, bcVars, geoVars, monVars,
    stVars, apiVars, sdVars, asVars, impVars, rcVars,
    cuVars, detVars,
    bbVars,
    fsVars,
    rvVars>>

PrNext ==
    \/ (\E arg \in TestUrlArgs : ProbeStart(arg)) /\ UNCHANGED notEpPr
    \/ (\E kind \in ResponseKinds : Answer200(kind)) /\ UNCHANGED notEpPr
    \/ (\E status_code \in RateLimitStatusCodes : AnswerRateLimited(status_code))
            /\ UNCHANGED notEpPr
    \/ SwitchUrl /\ UNCHANGED notEpPr
    \/ AnswerHttpError /\ UNCHANGED notEpPr
    \/ (\E kind \in ResponseKinds : AttemptRaises(kind)) /\ UNCHANGED notEpPr
    \/ ProbeReturn /\ UNCHANGED notEpPr
    \/ ProbeTick /\ UNCHANGED notEpPr

InitProbe ==
    PrInit
    /\ PoolIdle /\ CbIdle /\ PmIdle /\ EpIdle /\ BcIdle /\ GeoIdle
    /\ MonIdle /\ StoreIdle /\ ApiIdle /\ SdIdle /\ AsInit /\ ImpIdle
    /\ RcIdle /\ CuIdle /\ DetIdle /\ BbIdle /\ FsIdle /\ RvIdle

SpecProbe == InitProbe /\ [][PrNext]_vars

notBb == <<poolVars, cbVars, pmVars, epVars, bcVars, geoVars,
    monVars, stVars, apiVars, sdVars, asVars, impVars,
    rcVars, cuVars, detVars, prVars,
    fsVars,
    rvVars>>

BbNext ==
    \/ BatchStart /\ UNCHANGED notBb
    \/ (\E k \in BbIds : BbEnter(k)) /\ UNCHANGED notBb
    \/ (\E k \in BbIds : BbFinish(k)) /\ UNCHANGED notBb
    \/ BatchGathered /\ UNCHANGED notBb

InitBatches ==
    BbInit
    /\ PoolIdle /\ CbIdle /\ PmIdle /\ EpIdle /\ BcIdle /\ GeoIdle
    /\ MonIdle /\ StoreIdle /\ ApiIdle /\ SdIdle /\ AsInit /\ ImpIdle
    /\ RcIdle /\ CuIdle /\ DetIdle /\ PrIdle /\ FsIdle /\ RvIdle

SpecBatches == InitBatches /\ [][BbNext]_vars

notFs == <<poolVars, cbVars, pmVars, epVars, bcVars, geoVars,
    monVars, stVars, apiVars, sdVars, asVars, impVars,
    rcVars, cuVars, detVars, prVars, bbVars,
    rvVars>>

FsNext ==
    \/ (\E c \in BOOLEAN : SaveFixedSettings(c)) /\ UNCHANGED notFs
    \/ (\E o \in FixedProbeOutcomes : CheckAvailability(o)) /\ UNCHANGED notFs
    \/ (\E n \in 1..MaxCount, o \in FixedProbeOutcomes : FixedGetProxies(n, o))
          /\ UNCHANGED notFs

InitFixed ==
    FsInit
    /\ PoolIdle /\ CbIdle /\ PmIdle /\ EpIdle /\ BcIdle /\ GeoIdle
    /\ MonIdle /\ StoreIdle /\ ApiIdle /\ SdIdle /\ AsInit /\ ImpIdle
    /\ RcIdle /\ CuIdle /\ DetIdle /\ PrIdle /\ BbIdle /\ RvIdle

SpecFixed == InitFixed /\ [][FsNext]_vars

notRv == <<poolVars, pmVars, epVars, bcVars, geoVars,
    monVars, stVars, apiVars, sdVars, asVars, impVars,
    rcVars, cuVars, detVars, prVars, bbVars, fsVars>>

RvNext ==
    \/ \E c \in CbCallers :
        \/ ExecuteAdmitted(c) /\ UNCHANGED cb_since /\ UNCHANGED notRv
        \/ ExecuteRejected(c) /\ UNCHANGED cb_since /\ UNCHANGED notRv
        \/ ExecuteSucceeds(c) /\ OutcomeObserved(TRUE) /\ UNCHANGED notRv
        \/ ExecuteFails(c) /\ OutcomeObserved(FALSE) /\ UNCHANGED notRv
    \/ ReportSuccess /\ OutcomeObserved(TRUE) /\ UNCHANGED notRv
    \/ ReportFailure /\ OutcomeObserved(FALSE) /\ UNCHANGED notRv
    \/ Reset /\ cb_since' = NoRecovery /\ UNCHANGED notRv
    \/ CbTick /\ UNCHANGED cb_since /\ UNCHANGED notRv

InitRecovery ==
    RvInit
    /\ PoolIdle /\ PmIdle /\ EpIdle /\ BcIdle /\ GeoIdle
    /\ MonIdle /\ StoreIdle /\ ApiIdle /\ SdIdle /\ AsInit /\ ImpIdle
    /\ RcIdle /\ CuIdle /\ DetIdle /\ PrIdle /\ BbIdle /\ FsIdle

SpecRecovery == InitRecovery /\ [][RvNext]_vars

(***************************************************************************)
(* C1: for any interleaving of two concurrent TaskProxyPool.get_proxy      *)
(* calls on the same store (one instance or two instances on the same      *)
(* database file), no row id is returned to both callers.                  *)
(***************************************************************************)
C1_NoRowReturnedToBoth ==
    \A c1 \in Callers : \A c2 \in Callers :
        (c1 # c2 /\ gp_ret[c1] > 0) => gp_ret[c1] # gp_ret[c2]

\* The part of C1 that the per-instance lock does give: callers of one
\* TaskProxyPool object never share a row.
PoolSameInstanceDistinct ==
    \A c1 \in Callers : \A c2 \in Callers :
        (c1 # c2 /\ gp_inst[c1] = gp_inst[c2] /\ gp_ret[c1] > 0)
            => gp_ret[c1] # gp_ret[c2]


(***************************************************************************)
(* C2: for a freshly constructed or reset CircuitBreaker with              *)
(* failure_type = CONSECUTIVE and failure_threshold = N, after N failure   *)
(* reports with no success in between the state is OPEN, and after fewer   *)
(* than N it is still CLOSED.                                              *)
(***************************************************************************)
C2_ConsecutiveOpensAtThreshold ==
    (cb_cfg.failure_type = "CONSECUTIVE" /\ cb_run >= 0) =>
        /\ cb_run < cb_cfg.failure_threshold => cb.state = "CLOSED"
        /\ (cb_run = cb_cfg.failure_threshold /\ cb_last.op = "failure")
              => cb.state = "OPEN"

C2_Witness ==
    /\ cb_cfg.failure_type = "CONSECUTIVE"
    /\ cb_cfg.failure_threshold = 2
    /\ cb_run = 2
    /\ cb_last.op = "failure"
    /\ cb.state = "OPEN"

C4_CacheIdempotentWithinTtl ==
    \A t \in PmTasks :
        (pm_pc[t] # "idle" /\ pm_call[t].after # 0) =>
            /\ pm_pc[t] = "done"
            /\ pm_call[t].ret = pm_call[t].after
            /\ ~pm_call[t].probed

(***************************************************************************)
(* C5 as stated: once the cache entry has recorded max_failures            *)
(* consecutive failures, the next get_proxy call performs a fresh probe    *)
(* instead of answering from the cache: when its first attempt is over a   *)
(* probe has been issued.                                                  *)
(***************************************************************************)
C5_ForcedRecheckProbes ==
    \A t \in PmTasks :
        (pm_call[t].forced /\ pm_pc[t] \in {"sleeping", "done"}) =>
            pm_call[t].probed

(***************************************************************************)
(* C5 amended: such a call is never answered from the cache by its first   *)
(* cache test, and it has issued a probe once its first attempt is over    *)
(* whenever the source yields a proxy to probe, that is for 'direct' and   *)
(* for 'fixed' with host and port configured.                              *)
(***************************************************************************)
C5_ForcedRecheckSkipsCache ==
    \A t \in PmTasks :
        (pm_call[t].forced /\ pm_pc[t] \in {"sleeping", "done"}) =>
            /\ ~(pm_pc[t] = "done" /\ pm_call[t].retry = 0 /\ ~pm_call[t].probed)
            /\ pm_cfg.configured => pm_call[t].probed

C5_Witness ==
    \E t \in PmTasks :
        /\ pm_cfg.max_failures = 2
        /\ pm_call[t].forced
        /\ pm_pc[t] = "done"
        /\ pm_call[t].probed
        /\ pm_call[t].ret # 0

(***************************************************************************)
(* C6 as stated: an endpoint put into cooldown at time T for c seconds is  *)
(* not returned by _get_next_available_url or get_next_available_api       *)
(* before T+c, whatever the state of the other endpoints, including the    *)
(* state where all endpoints are in cooldown.                              *)
(***************************************************************************)
C6_CooldownAlwaysRespected ==
    ep_last.kind # "none" => ~ep_last.early

(***************************************************************************)
(* C6 amended: a selector returns an endpoint before the end of the        *)
(* cooldown in force for it only in a call that finds every endpoint of    *)
(* its list in cooldown; that call resets all cooldowns and returns one    *)
(* endpoint.  In every other call the returned endpoint is out of          *)
(* cooldown.                                                               *)
(***************************************************************************)
C6_CooldownRespectedUnlessAllCooling ==
    ep_last.kind # "none" =>
        /\ ep_last.early => ep_last.fail_open
        /\ ep_last.fail_open => ep_last.all_cooled

C6_Witness ==
    /\ ep_last.kind = "api"
    /\ ~ep_last.fail_open
    /\ \E a \in ApiSet : a # ep_last.ep /\ ep_now < api_states[a].blocked_until
    /\ \E u \in UrlSet :
          /\ u \in blocked_urls
          /\ ep_now < url_cooldown[u]
          /\ url_last_used[u] > 0
          /\ \E v \in UrlSet : v # u /\ url_last_used[v] > url_last_used[u]

(***************************************************************************)
(* C7: for a batch of N proxies passed to batch_check_async in which       *)
(* exactly K proxies fail with a proxy-connection error and the other N-K  *)
(* succeed, the returned statistics have total = N, available = N-K and    *)
(* unavailable = K, and no proxy was probed with more than max_retries     *)
(* HTTP attempts.                                                          *)
(***************************************************************************)
C7_BatchStatisticsAndAttemptBound ==
    LET n == bc_cfg.n
        k == Cardinality({i \in 1..n : bc_result[i] = "proxy_error"})
    IN (bc_done /\ \A i \in 1..n : bc_result[i] \in {"success", "proxy_error"}) =>
          /\ bc_stats.total = n
          /\ bc_stats.available = n - k
          /\ bc_stats.unavailable = k
          /\ \A i \in 1..n : bc_attempts[i] <= bc_cfg.max_retries

(***************************************************************************)
(* C8: CountryMapper.match_country_code(a, b) is false for every ordered   *)
(* pair (a, b) in which one side is 'CN' and the other is one of 'HK',     *)
(* 'TW', 'MO'.                                                             *)
(***************************************************************************)
C8_MainlandNeverMatchesRegions ==
    (/\ geo_called
     /\ \/ geo_detected = "CN" /\ geo_target \in {"HK", "TW", "MO"}
        \/ geo_target = "CN" /\ geo_detected \in {"HK", "TW", "MO"})
        => geo_result = FALSE

C8_Witness ==
    /\ geo_called
    /\ geo_detected = "MO"
    /\ geo_target = "CN"
    /\ geo_result = FALSE
    /\ MatchCountryCode("China", "[zhongguo]")
    /\ MatchCountryCode("hk", " HK ")

(***************************************************************************)
(* C9: a call of monitor_pool_for_tasks made while a monitor task is       *)
(* running creates no task and changes none of _total_tasks,               *)
(* _proxy_source and _monitor_task, and in every reachable state, a start  *)
(* interleaved with a waiting stop_monitoring included, at most one        *)
(* monitor task is live.                                                   *)
(***************************************************************************)
C9_StartIdempotentOneLiveTask ==
    /\ Cardinality(LiveTasks(mon_tasks)) <= 1
    /\ mon_start.while_live => ~mon_start.created /\ ~mon_start.changed

(***************************************************************************)
(* C10: from the return of stop_monitoring until the next call of          *)
(* monitor_pool_for_tasks, the task that was being stopped has ended,      *)
(* _should_monitor is false and no replenishment request is issued.        *)
(***************************************************************************)
C10_StopLeavesMonitorStopped ==
    mon_after_stop.active =>
        /\ Terminated(mon_tasks, mon_after_stop.target)
        /\ ~should_monitor
        /\ ~mon_after_stop.requested

(***************************************************************************)
(* C11: a top-level get_proxy call for 'direct' or 'fixed' makes at most   *)
(* 3 attempts (cache misses followed by a source fetch or a probe); a call *)
(* in which every attempt failed has made exactly 3, is then over with an  *)
(* empty result, and no call is in a fourth attempt.                       *)
(***************************************************************************)
C11_AtMostThreeAttempts ==
    \A t \in PmTasks :
        /\ pm_call[t].attempts <= 3
        /\ pm_pc[t] \in {"source", "probing", "sleeping"} =>
              pm_call[t].retry < 3 /\ pm_call[t].attempts = pm_call[t].retry + 1
        /\ pm_call[t].retry >= 3 =>
              pm_pc[t] = "done" /\ pm_call[t].ret = 0 /\ pm_call[t].attempts = 3
        /\ (pm_pc[t] = "done" /\ pm_call[t].ret = 0) => pm_call[t].attempts = 3

C11_Witness ==
    \E t \in PmTasks :
        /\ pm_pc[t] = "done"
        /\ pm_call[t].ret = 0
        /\ pm_call[t].attempts = 3
        /\ pm_call[t].retry = 3
        /\ pm_next_id = 1

(***************************************************************************)
(* C12: no step of batch_add_proxies (a proxy with the host, port and      *)
(* credentials of an existing row included), get_proxy,                    *)
(* get_proxy_from_task_pool, mark_task_proxy_used or a replenishment       *)
(* changes a row whose status is 'failed' to 'available'.                  *)
(***************************************************************************)
C12_FailedNeverAvailable ==
    [][\A i \in 1..Len(store_rows) :
          store_rows[i].status = "failed" =>
              /\ i <= Len(store_rows')
              /\ store_rows'[i].status # "available"]_vars

C12_Witness ==
    /\ st_last.op = "batch_add_proxies"
    /\ st_last.err = "none"
    /\ st_last.readded_failed
    /\ st_last.ret = <<0, 1>>
    /\ \E i \in 1..Len(store_rows) :
          store_rows[i].status = "failed" /\ store_rows[i].username = "u"

(***************************************************************************)
(* C13: after any sequence of batch_add_proxies calls the store holds no   *)
(* two rows with the same (host, port, username, password), rows whose     *)
(* username and password are null included.                                *)
(***************************************************************************)
C13_NoDuplicateProxies ==
    \A i \in 1..Len(store_rows) : \A j \in 1..Len(store_rows) :
        i # j =>
            \/ store_rows[i].host # store_rows[j].host
            \/ store_rows[i].port # store_rows[j].port
            \/ store_rows[i].username # store_rows[j].username
            \/ store_rows[i].password # store_rows[j].password

(***************************************************************************)
(* C18 as stated: a call of get_proxy, mark_proxy_status or                *)
(* batch_add_proxies during which the store raises an error returns its    *)
(* failure value (None, False, (0, number of input proxies)) and leaves    *)
(* every row as it was.                                                    *)
(***************************************************************************)
C18_StoreErrorLeavesRows ==
    st_last.err # "none" =>
        /\ st_last.kept
        /\ st_last.ret = FailureValue(st_last.op, st_last.n)

(***************************************************************************)
(* C18 amended: that holds when the error is raised in get_proxy or        *)
(* mark_proxy_status, or at the commit of batch_add_proxies.  When the     *)
(* INSERT of one proxy raises, batch_add_proxies counts that proxy as      *)
(* failed and goes on: it returns (inserted, n - inserted) with at least   *)
(* one failure, and the rows are as before only if nothing was inserted.   *)
(***************************************************************************)
C18_StoreErrorCaught ==
    st_last.err # "none" =>
        IF st_last.op = "batch_add_proxies" /\ st_last.err = "statement"
        THEN /\ st_last.ret[1] + st_last.ret[2] = st_last.n
             /\ st_last.ret[2] >= 1
             /\ st_last.kept <=> st_last.ret[1] = 0
        ELSE /\ st_last.kept
             /\ st_last.ret = FailureValue(st_last.op, st_last.n)

C18_Witness ==
    /\ st_last.op = "get_proxy"
    /\ st_last.err = "commit"
    /\ st_last.ret = <<0>>
    /\ st_last.kept
    /\ \E c \in TpCallers : tp_pc[c] = "returned" /\ tp_id[c] = 0
    /\ \E i \in 1..Len(store_rows) : store_rows[i].status = "available"

(***************************************************************************)
(* C19: once get_proxy_from_task_pool has handled a check that failed only *)
(* because the test endpoint answered with a rate-limit signal, the row of *)
(* the proxy is not 'failed'.                                              *)
(***************************************************************************)
C19_RateLimitNeverMarksFailed ==
    \A c \in TpCallers :
        (tp_pc[c] = "get" /\ tp_outcome[c] = "rate_limited") =>
            store_rows[tp_id[c]].status # "failed"

(***************************************************************************)
(* C14: while the breaker is OPEN and the current time is not later than   *)
(* the last state change plus reset_timeout, an execute or execute_async   *)
(* call is refused, its action is not run, and the state stays OPEN.       *)
(***************************************************************************)
C14_OpenRejectsWithinTimeout ==
    api_last.open_within =>
        (~api_last.allowed /\ api_last.state_after = "OPEN")

C14_Witness ==
    /\ api_last.open_within
    /\ ~api_last.allowed
    /\ api_cb.state = "OPEN"
    /\ api_now = api_cb.last_state_change + api_cfg.reset_timeout
    /\ \A c \in ApiCallers : api_pc[c] = "idle"

(***************************************************************************)
(* C15: between the breaker entering HALF_OPEN and its next state change,  *)
(* execute and execute_async together admit at most half_open_max_trials   *)
(* actions, whatever the interleaving of thread and event-loop callers.    *)
(***************************************************************************)
C15_HalfOpenTrialsBounded ==
    api_cb.state = "HALF_OPEN" =>
        api_admitted <= api_cfg.half_open_max_trials

(***************************************************************************)
(* C16: every state transition, made through the synchronous or through    *)
(* the asynchronous API, delivers its event to every listener registered   *)
(* with add_listener and to every listener registered with                 *)
(* add_async_listener.                                                     *)
(***************************************************************************)
C16_EveryListenerNotified ==
    api_event.api # "none" =>
        api_event.missed = [sync |-> {}, async |-> {}]

C20_UnsupportedSourceIsNoOp ==
    (\/ sd_last.op = "get_proxy" /\ sd_last.source_type \notin {"direct", "fixed"}
     \/ sd_last.op = "get_proxies_batch"
            /\ sd_last.source_type \notin {"api", "pool"}) =>
        /\ sd_last.ret = "empty"
        /\ ~sd_last.probed
        /\ ~sd_last.source_called
        /\ sd_last.cache_same
        /\ sd_last.rows_same

C20_Witness ==
    /\ sd_last.op = "get_proxy"
    /\ sd_last.source_type = "api"
    /\ self_source_type = "api"
    /\ sd_last.ret = "empty"
    /\ proxy_cache["direct"] = "ok"
    /\ pool_rows = BatchProxies

(***************************************************************************)
(* C24: a failure received in HALF_OPEN (a failing trial or                *)
(* report_failure) leaves the breaker OPEN with last_state_change at the   *)
(* time of that failure, and a request is admitted from OPEN only when     *)
(* more than reset_timeout has passed since last_state_change; under all   *)
(* three policies.                                                         *)
(***************************************************************************)
C24_HalfOpenFailureReopens ==
    [][/\ (cb.state = "HALF_OPEN" /\ cb_last'.op = "failure" /\ cb' # cb)
            => (cb'.state = "OPEN" /\ cb'.last_state_change = cb_now)
       /\ (cb.state = "OPEN" /\ cb_last'.op = "admitted" /\ cb' # cb)
            => cb_now > cb.last_state_change + cb_cfg.reset_timeout]_vars

C24_Witness ==
    /\ cb_cfg.failure_type = "PERCENTAGE"
    /\ cb_last.op = "failure"
    /\ cb_last.from_open
    /\ cb.state = "OPEN"
    /\ cb.last_state_change = cb_now
    /\ cb_now > cb_cfg.reset_timeout

(***************************************************************************)
(* C25 as stated: the state changes only inside _on_success and            *)
(* _on_failure; the admission check of execute and reset do not change it. *)
(***************************************************************************)
C25_OnlyReportsChangeState ==
    [][cb'.state # cb.state
          => cb_last'.op \in {"exec_success", "report_success", "failure"}]_vars

(***************************************************************************)
(* C25 amended: the state changes only inside _on_success and _on_failure, *)
(* inside the admission check of execute, which sets HALF_OPEN, and inside *)
(* reset, which sets CLOSED.                                               *)
(***************************************************************************)
C25_StateChangesOnlyByTransitions ==
    [][cb'.state # cb.state
          => \/ cb_last'.op \in {"exec_success", "report_success", "failure"}
             \/ cb_last'.op = "admitted" /\ cb'.state = "HALF_OPEN"
             \/ cb_last'.op = "reset" /\ cb'.state = "CLOSED"]_vars

C25_Witness ==
    /\ cb_last.op = "admitted"
    /\ cb_last.from_open
    /\ cb.state = "HALF_OPEN"
    /\ cb.last_state_change = cb_now

(***************************************************************************)
(* C26: under the PERCENTAGE policy no reachable CLOSED state has a        *)
(* results window with at least min(window_size, 3) samples and a failure  *)
(* share of at least failure_rate_threshold.                               *)
(***************************************************************************)
C26_PercentageClosedBelowThreshold ==
    (cb_cfg.failure_type = "PERCENTAGE" /\ cb.state = "CLOSED") =>
        ~(/\ Len(cb.results_window) >= Min(cb_cfg.window_size, 3)
          /\ FailureCount(cb.results_window) * 100
                >= cb_cfg.failure_rate_percent * Len(cb.results_window))

(***************************************************************************)
(* C27: in every reachable state, under every policy, results_window is    *)
(* no longer than window_size.                                             *)
(***************************************************************************)
C27_WindowBounded ==
    Len(cb.results_window) <= cb_cfg.window_size

C27_Witness ==
    /\ cb_cfg.failure_type = "TOTAL"
    /\ cb_cfg.window_size = 2
    /\ Len(cb.results_window) = 2
    /\ cb_run = 3

(***************************************************************************)
(* C21: ApiProxySource.get_proxies(count) terminates whatever the remote   *)
(* API does, makes at most max(10, min(100, floor(count/2)+10)) API calls, *)
(* and returns at most count records.                                      *)
(***************************************************************************)
C21_GetProxiesBounded ==
    /\ [](as_calls <= Max(10, Min(100, (as_count \div 2) + 10)))
    /\ [](as_pc = "done" => as_ret <= as_count)
    /\ (as_pc = "loop") ~> (as_pc = "done")

C21_Witness ==
    /\ as_pc = "done"
    /\ as_count = 200
    /\ as_calls = 100
    /\ as_ret < as_count

(***************************************************************************)
(* C22: with proxy.pool.allow_reuse = false, over any sequence or          *)
(* interleaving of ImportedProxySource.get_proxies calls on one store, no  *)
(* imported record is returned by more than one call.                      *)
(***************************************************************************)
C22_NoRecordReturnedTwice ==
    ~imp_allow_reuse => \A i \in ImpIds : imp_returns[i] <= 1

(***************************************************************************)
(* C29 as stated: in a monitor cycle, with needed = max(5, floor(1.2 *     *)
(* total_tasks)) and available the count of 'available' rows, the number   *)
(* of proxies requested from the underlying source is needed - available   *)
(* when available < needed, and no request is made otherwise.              *)
(***************************************************************************)
C29_SourceAskedForShortfall ==
    rc_pc # "idle" =>
        LET needed == Max(5, (12 * rc_total) \div 10) IN
        /\ rc_req.made <=> rc_req.rows < needed
        /\ rc_req.made => rc_req.source_count = needed - rc_req.rows

(***************************************************************************)
(* C29 amended: with available the 'available' count get_pool_stats        *)
(* reports (0 when the store query fails), the count passed to             *)
(* ProxyManager.get_proxies_batch is needed - available when               *)
(* available < needed, the underlying source being asked for               *)
(* floor(1.5 * (needed - available)); no request is made otherwise.        *)
(***************************************************************************)
C29_BatchFetchAskedForShortfall ==
    rc_pc # "idle" =>
        LET needed == Max(5, (12 * rc_total) \div 10) IN
        /\ rc_req.made <=> rc_req.available < needed
        /\ rc_req.made =>
              /\ rc_req.fetch_count = needed - rc_req.available
              /\ rc_req.source_count
                    = (3 * (needed - rc_req.available)) \div 2
        /\ ~rc_req.made => (rc_req.source_count = 0 /\ rc_thread = "none")

C29_Witness ==
    /\ rc_total = 6
    /\ rc_req.made
    /\ rc_req.needed = 7
    /\ rc_req.available = 4
    /\ rc_req.fetch_count = 3
    /\ rc_req.source_count = 4

(***************************************************************************)
(* C30: a forced cancellation of the monitor at any await of a cycle       *)
(* leaves no partial store writes: once the cycle's threads have ended,    *)
(* either every proxy the cycle took from its source is in the task pool   *)
(* or no store shows an effect of the cycle; no imported record is marked  *)
(* 'used' without having been added to the task pool.                      *)
(***************************************************************************)
C30_CancelLeavesNoPartialWrites ==
    (rc_pc = "cancelled" /\ rc_thread = "none") =>
        \/ rc_saved = rc_taken
        \/ rc_saved = 0 /\ (rc_source = "pool" => rc_taken = 0)

(***************************************************************************)
(* C23: every _update_proxy_cache call sets the entry as follows: on a     *)
(* successful check failures = 0, proxy = the checked proxy and            *)
(* expiry_time = now + ttl; on a failed check proxy = null, failures =     *)
(* previous failures + 1, and expiry_time = now + failure_ttl when the new *)
(* failures < max_failures, else expiry_time = 0.                          *)
(***************************************************************************)
C23_UpdateSetsEntry ==
    cu_last.called =>
        IF cu_last.success
          THEN /\ cu_cache.failures = 0
               /\ cu_cache.proxy = cu_last.proxy
               /\ cu_cache.expiry_time = cu_last.now + 300
          ELSE /\ cu_cache.proxy = 0
               /\ cu_cache.failures = cu_last.failures_before + 1
               /\ cu_cache.expiry_time
                     = IF cu_cache.failures < cu_max_failures
                       THEN cu_last.now + 30 ELSE 0

\* a success after a failure that forced expiry, under max_failures = 2
C23_Witness ==
    /\ cu_last.called
    /\ cu_last.success
    /\ cu_last.failures_before = 2
    /\ cu_max_failures = 2
    /\ cu_cache.failures = 0
    /\ cu_cache.proxy # 0

(***************************************************************************)
(* C28: after any sequence of batch_add_proxies, get_proxy and             *)
(* mark_proxy_status calls, with any status argument given to              *)
(* mark_proxy_status, every row of task_proxies has a status in            *)
(* {available, in_use, used, failed}.                                      *)
(***************************************************************************)
C28_StatusRestricted ==
    \A i \in 1..Len(store_rows) :
        store_rows[i].status \in {"available", "in_use", "used", "failed"}


(***************************************************************************)
(* C33: update_api_state puts an API into the 5-minute cooldown exactly    *)
(* when that API has failed 5 times in a row with no success in between    *)
(* (and again at every further 5th failure of such a run); failures        *)
(* separated by a success do not add up toward a cooldown.                 *)
(***************************************************************************)
C33_CooldownAtFifthConsecutiveFailure ==
    det_last.called =>
        (det_last.cooled <=> (~det_last.success /\ det_last.run % 5 = 0))

(***************************************************************************)
(* C34: with a non-empty API list get_next_available_api always returns    *)
(* an API, and a call made while every API is in cooldown clears every     *)
(* cooldown.                                                               *)
(***************************************************************************)
C34_AlwaysAnApi ==
    [][GetNextAvailableApi =>
          /\ ep_last'.kind = "api"
          /\ ep_last'.ep \in ApiSet
          /\ (\A a \in ApiSet : ep_now < api_states[a].blocked_until)
                => \A a \in ApiSet : api_states'[a].blocked_until = 0]_vars

\* a call answered after every API had been put into cooldown
C34_Witness ==
    /\ ep_last.kind = "api"
    /\ ep_last.all_cooled
    /\ ep_last.ep \in ApiSet
    /\ \A a \in ApiSet : api_states[a].failure_count = 5


(***************************************************************************)
(* C31: with geo-checking enabled (ignore_ip_check = false) every probe    *)
(* result with success = true has a non-null country_code that matches     *)
(* the target country, whatever the response body and the test URL.        *)
(***************************************************************************)
C31_SuccessImpliesCountryMatch ==
    (pr_pc = "done" /\ ~pr_cfg.ignore_ip_check /\ pr_result.success) =>
        /\ pr_result.country_code # "None"
        /\ pr_result.country_match = "True"

(***************************************************************************)
(* C32: when an attempt of a probe receives 403, 429 or 503 and            *)
(* attempt < max_retries, the endpoint that answered is in cooldown        *)
(* afterwards and the next attempt goes to a different endpoint, for test  *)
(* URLs and for IP-geo API endpoints.                                      *)
(***************************************************************************)
C32_RateLimitedEndpointLeft ==
    (pr_pc = "request" /\ pr_limited # "") =>
        /\ InCooldown(pr_limited)
        /\ pr_url # pr_limited

(***************************************************************************)
(* C40: every result returned by _check_connection_async with              *)
(* success = true has error = null, also when earlier attempts of the      *)
(* probe timed out before a later attempt succeeded.                       *)
(***************************************************************************)
C40_SuccessHasNoError ==
    (pr_pc = "done" /\ pr_result.success) => pr_result.error = "None"


(***************************************************************************)
(* C35: during batch_check_async the probes in flight all belong to one    *)
(* batch (no probe of batch N+1 starts before every probe of batch N has   *)
(* completed) and their number is at most min(max_workers, size of that    *)
(* batch).                                                                 *)
(***************************************************************************)
C35_OneBatchInFlight ==
    LET size == Min(bb_cfg.n, Max(5, Min(20, bb_cfg.max_workers)))
        batch_of(k) == (k - 1) \div size
        members(b) == {k \in 1..bb_cfg.n : batch_of(k) = b}
    IN \A k \in BbRunning :
          /\ \A j \in BbRunning : batch_of(j) = batch_of(k)
          /\ \A j \in members(batch_of(k) - 1) : bb_pc[j] = "finished"
          /\ Cardinality(BbRunning)
                <= Min(bb_cfg.max_workers, Cardinality(members(batch_of(k))))

\* a probe of the second batch in flight
C35_Witness ==
    /\ bb_cfg.n = 6
    /\ bb_pc[6] = "running"
    /\ \A k \in 1..5 : bb_pc[k] = "finished"


(***************************************************************************)
(* C36: every mutation of a CircuitBreaker's state, counters and window    *)
(* happens while the one lock of the breaker is held, so two mutations     *)
(* never interleave: while a caller of either API is inside its critical   *)
(* section, no step of another caller (a report_failure or                 *)
(* report_failure_async among them) changes the breaker.                   *)
(***************************************************************************)
C36_MutationsExclusive ==
    [][\A c \in ApiCallers :
          (api_lock[ApiOf(c)] = c /\ api_pc'[c] = api_pc[c])
              => api_cb' = api_cb]_vars


C38_MonitoringHasLiveTask ==
    should_monitor => Live(mon_tasks, monitor_task)


(***************************************************************************)
(* C39: after a CircuitBreaker has recovered from HALF_OPEN to CLOSED      *)
(* through a successful trial, it does not open again before what was      *)
(* reported after the recovery alone satisfies its trigger policy          *)
(* (failure_threshold failures in a row for CONSECUTIVE, failure_threshold *)
(* failures for TOTAL, the rate threshold over the outcomes since the      *)
(* recovery for PERCENTAGE); outcomes recorded before the recovery do not  *)
(* count toward the next opening.                                          *)
(***************************************************************************)
C39_OpensOnPostRecoveryFailures ==
    [][(cb_since.active /\ cb.state = "CLOSED" /\ cb'.state = "OPEN")
          => LET since == [cb_since EXCEPT
                             !.window = PushResult(cb_cfg, @, FALSE),
                             !.run = IF cb_cfg.failure_type = "CONSECUTIVE"
                                     THEN @ + 1 ELSE @]
             IN PolicyTrips(cb_cfg, since.window, since.run)]_vars

=============================================================================
